---- MODULE Spec2Model ----
(***************************************************************************)
(* State-machine model of the coal-handling vision pipeline:               *)
(*   - PersonDetector / CoalDetector hysteresis (src/detection)            *)
(*   - PLCClient and AlarmManager (src/plc)                                *)
(*   - OptimizedCameraWorker coal logic (src/core/optimized_worker.py)     *)
(*   - CameraMonitor start/stop and detection thread (src/core)            *)
(*   - MultiModelLoader inference locks (src/detection/model_loader.py)    *)
(*   - FrameBuffer put/get/get_latest/clear (src/camera/frame_buffer.py)   *)
(*   - OptimizedVideoSource capture thread and stop (src/camera)           *)
(*   - OptimizedCameraWorker capture and detection threads (src/core)      *)
(*   - CoalDetector switched on and off (src/detection/coal_detector.py)   *)
(*   - CameraMonitor state over start() / stop() calls (src/core)          *)
(*   - AlertLogger and ImageSaver throttles (src/alerting)                 *)
(*   - PLCClient.write_bit() called from several threads (src/plc)         *)
(*   - PLCClient.reconnect() / health_check() called from several threads  *)
(*   - the ROI mask cache of the detectors and update_roi() (src/detection) *)
(*   - OptimizedCameraWorker threads over start() / stop() calls (src/core) *)
(* Each component has its own specification over the shared variables;     *)
(* a specification leaves the variables of the other components untouched. *)
(***************************************************************************)
EXTENDS Integers, Sequences, FiniteSets, TLC

VARIABLES
    person,     \* PersonDetector instance
    coal,       \* CoalDetector instance
    obs,        \* what an observer of the detect() calls has seen so far
    cobs,       \* the caller of CoalDetector.set_enabled() and what an observer of the switch has seen
    plc,        \* PLCClient instance
    plc_mem,    \* the PLC's data block: byte address -> set of bit offsets that are 1
    alarm,      \* AlarmManager instance
    alog,       \* what an observer of the AlarmManager calls has seen so far
    worker,     \* OptimizedCameraWorker instance (its detection state)
    wobs,       \* what an observer of the worker's detection cycles has seen so far
    mon,        \* CameraMonitor instance, with the positions of its threads
    mobs,       \* what an observer of the monitor has seen so far
    life,       \* the monitor's detection buffer and what an observer of its state has seen
    loader,     \* MultiModelLoader singleton
    workers,    \* the OptimizedCameraWorkers built by start_all: camera -> model and lock
    locks,      \* lock object -> the thread holding it
    inf,        \* inference threads: thread -> position, model and lock in use
    lobs,       \* the configuration the loader was given and which loads failed
    fb,         \* FrameBuffer instance
    bth,        \* the threads calling the FrameBuffer: thread -> position and locals
    bobs,       \* what an observer of the FrameBuffer calls has seen so far
    src,        \* OptimizedVideoSource instance, with its capture thread and stop() caller
    sobs,       \* the camera behind the source and what an observer has seen so far
    wcap,       \* OptimizedCameraWorker instance (its capture side), with its threads
    wcobs,      \* the camera behind the worker and what an observer has seen so far
    thr,        \* AlertLogger and ImageSaver instances, the threads calling them, the clock
    tobs,       \* what an observer of the log and snapshot calls has seen so far
    wb,         \* one byte of the PLC, the PLCClients writing it and the threads in write_bit()
    wbobs,      \* what an observer of the write_bit() calls has seen so far
    lk,         \* a PLCClient and the threads inside its reconnect() and health_check()
    lkobs,      \* what an observer of the connection attempts has seen so far
    cache,        \* the ROI mask cache of a detector, its detect() thread and an update_roi() caller
    robs,       \* what an observer of the masks used by detect() has seen so far
    tk,         \* OptimizedCameraWorker flags, every thread it has started, and the caller of start() / stop()
    tkobs       \* what an observer of the start() and stop() calls has seen so far

vars ==
    <<person, coal, obs, cobs, plc, plc_mem, alarm, alog, worker, wobs, mon, mobs, life, loader, workers, locks, inf, lobs,
      fb, bth, bobs, src, sobs, wcap, wcobs, thr, tobs,
      wb, wbobs, lk, lkobs, cache, robs, tk, tkobs>>

detector_vars == <<person, coal, obs, cobs>>
plc_vars == <<plc, plc_mem, alarm, alog>>
worker_vars == <<worker, wobs>>
monitor_vars == <<mon, mobs, life>>
inference_vars == <<loader, workers, locks, inf, lobs>>
buffer_vars == <<fb, bth, bobs>>
source_vars == <<src, sobs>>
capture_vars == <<wcap, wcobs>>
throttle_vars == <<thr, tobs>>
wire_vars == <<wb, wbobs>>
link_vars == <<lk, lkobs>>
cache_vars == <<cache, robs>>
task_vars == <<tk, tkobs>>
more_vars == <<wire_vars, link_vars, cache_vars, task_vars>>
stream_vars == <<buffer_vars, source_vars, capture_vars, throttle_vars, more_vars>>

MaxCycles == 11
MaxThreshold == 2
MaxMonFrames == 3
MaxLifeCalls == 5
MaxLifeFrames == 2
MaxThrottleCalls == 3
MaxTicks == 2
MaxWrites == 3
MaxAttempts == 2
MaxLinkCalls == 3
MaxRoiFrames == 3
MaxRoiUpdates == 2
MaxStarts == 2
MaxPresetCalls == 4
MaxFaults == 1
MaxCameras == 2

MaxCalls == 5

MaxFrames == 16

\* An attribute that is None is the empty tuple; a value v that is set is <<v>>.
None == <<>>
Some(v) == <<v>>
Get(o) == o[1]

(***************************************************************************)
(* Frames and predictor output.  A frame is one row of FrameWidth pixels;  *)
(* a mask is the set of its non-zero pixels.  A detection carries a class  *)
(* id and a region: its instance mask when the result has masks, else the  *)
(* pixels covered by its bounding box.                                     *)
(***************************************************************************)
FrameWidth == 3
MaxDets == 2

Pixels == 0 .. (FrameWidth - 1)

person_class_id == 0
coal_class_id == 1

ClassIds == {person_class_id, coal_class_id}

Detection == [cls : ClassIds, region : SUBSET Pixels]

Boxes == UNION {[1 .. n -> Detection] : n \in 0 .. MaxDets}

\* A predictor result: none (the result itself is None), boxes_none (result.boxes is
\* None), masks (result.masks is not None), and the detections.
YoloResults ==
    [none : {TRUE}, boxes_none : {TRUE}, boxes : {<<>>}, masks : {FALSE}]
    \cup [none : {FALSE}, boxes_none : {TRUE}, boxes : {<<>>}, masks : BOOLEAN]
    \cup [none : {FALSE}, boxes_none : {FALSE}, boxes : Boxes, masks : BOOLEAN]

\* Configured ROI polygons (cfg.roi.roi_person / cfg.roi.roi_coal), as vertex lists.
roi_person == <<1, FrameWidth - 1>>
roi_coal == <<0, FrameWidth - 1>>

SeqMin(s) == CHOOSE m \in {s[i] : i \in DOMAIN s} : \A j \in DOMAIN s : m <= s[j]
SeqMax(s) == CHOOSE m \in {s[i] : i \in DOMAIN s} : \A j \in DOMAIN s : m >= s[j]

\* cv2.fillPoly on a zero mask: the pixels of the frame inside the polygon.
create_mask_from_polygon(polygon, width) ==
    IF Len(polygon) = 0 THEN {}
    ELSE {x \in 0 .. (width - 1) : SeqMin(polygon) <= x /\ x <= SeqMax(polygon)}

\* (has_intersection, area) of two masks; only has_intersection is used.
check_mask_intersection(mask1, mask2) == Cardinality(mask1 \cap mask2) > 0

(***************************************************************************)
(* PersonDetector                                                          *)
(***************************************************************************)
person_consecutive_threshold == 3
person_no_detection_threshold == 5

PersonDetector_init(roi_points, consecutive_threshold, no_detection_threshold) ==
    [ roi_points |-> roi_points,
      consecutive_threshold |-> consecutive_threshold,
      no_detection_threshold |-> no_detection_threshold,
      _consecutive_count |-> 0,
      _no_detection_count |-> 0,
      _alarm_state |-> FALSE,
      _roi_mask |-> None ]

EmptyPersonResult ==
    [ detected |-> FALSE, person_count |-> 0, person_in_roi |-> FALSE,
      consecutive_count |-> 0, should_alarm |-> FALSE ]

\* The person detections of a result, in order.
PersonDetector_extract_person_boxes(self, yolo_result) ==
    SelectSeq(yolo_result.boxes, LAMBDA d : d.cls = person_class_id)

\* Mask test when the box has a mask, bounding-box test otherwise: both
\* intersect the detection's region with the ROI mask.
PersonDetector_check_persons_in_roi(self, person_boxes) ==
    \E i \in DOMAIN person_boxes :
        check_mask_intersection(person_boxes[i].region, Get(self._roi_mask))

\* Variant: the threshold branch reports a new alarm without looking at _alarm_state.
PersonDetector_update_alarm_state_no_edge_guard(self, person_in_roi) ==
    IF person_in_roi
    THEN LET c == self._consecutive_count + 1 IN
         IF c >= self.consecutive_threshold
         THEN [ self |-> [self EXCEPT !._no_detection_count = 0,
                                      !._consecutive_count = 0,
                                      !._alarm_state = TRUE],
                ret |-> TRUE ]
         ELSE [ self |-> [self EXCEPT !._no_detection_count = 0,
                                      !._consecutive_count = c],
                ret |-> FALSE ]
    ELSE LET n == self._no_detection_count + 1 IN
         IF n >= self.no_detection_threshold
         THEN [ self |-> [self EXCEPT !._no_detection_count = n,
                                      !._consecutive_count = 0,
                                      !._alarm_state = FALSE],
                ret |-> FALSE ]
         ELSE [ self |-> [self EXCEPT !._no_detection_count = n],
                ret |-> FALSE ]

PersonDetector_update_alarm_state(self, person_in_roi) ==
    IF person_in_roi
    THEN LET c == self._consecutive_count + 1 IN
         IF c >= self.consecutive_threshold
         THEN [ self |-> [self EXCEPT !._no_detection_count = 0,
                                      !._consecutive_count = 0,
                                      !._alarm_state = TRUE],
                ret |-> ~self._alarm_state ]
         ELSE [ self |-> [self EXCEPT !._no_detection_count = 0,
                                      !._consecutive_count = c],
                ret |-> FALSE ]
    ELSE LET n == self._no_detection_count + 1 IN
         IF n >= self.no_detection_threshold
         THEN [ self |-> [self EXCEPT !._no_detection_count = n,
                                      !._consecutive_count = 0,
                                      !._alarm_state = FALSE],
                ret |-> FALSE ]
         ELSE [ self |-> [self EXCEPT !._no_detection_count = n],
                ret |-> FALSE ]

\* Variant: an empty result leaves the counters alone.
PersonDetector_create_empty_result_no_count(self) ==
    [self |-> self, result |-> EmptyPersonResult]

PersonDetector_create_empty_result(self) ==
    LET n == self._no_detection_count + 1 IN
    [ self |-> IF n >= self.no_detection_threshold
               THEN [self EXCEPT !._no_detection_count = n,
                                 !._consecutive_count = 0,
                                 !._alarm_state = FALSE]
               ELSE [self EXCEPT !._no_detection_count = n],
      result |-> EmptyPersonResult ]

PersonDetector_detect(self0, yolo_result) ==
    LET self == IF self0._roi_mask = None
                THEN [self0 EXCEPT !._roi_mask =
                          Some(create_mask_from_polygon(self0.roi_points, FrameWidth))]
                ELSE self0
    IN  IF yolo_result.none \/ yolo_result.boxes_none
        THEN PersonDetector_create_empty_result(self)
        ELSE LET person_boxes == PersonDetector_extract_person_boxes(self, yolo_result)
                 person_in_roi == PersonDetector_check_persons_in_roi(self, person_boxes)
                 upd == PersonDetector_update_alarm_state(self, person_in_roi)
             IN  [ self |-> upd.self,
                   result |-> [ detected |-> Len(person_boxes) > 0,
                                person_count |-> Len(person_boxes),
                                person_in_roi |-> person_in_roi,
                                consecutive_count |-> upd.self._consecutive_count,
                                should_alarm |-> upd.ret ] ]

PersonDetector_should_turn_off_alarm(self) ==
    self._no_detection_count >= self.no_detection_threshold /\ self._alarm_state = FALSE

(***************************************************************************)
(* CoalDetector                                                            *)
(***************************************************************************)
coal_ratio_threshold == 73
coal_consecutive_threshold == 5
coal_no_blockage_threshold == 5

\* A ratio in percent is kept exact, as the pair <<100 * area, roi_area>>.
Ratio(coal_area, roi_area) == IF roi_area > 0 THEN <<100 * coal_area, roi_area>> ELSE <<0, 1>>
ZeroRatio == <<0, 1>>
RatioGE(r, threshold) == r[1] >= threshold * r[2]

CoalDetector_init(roi_points, ratio_threshold, consecutive_threshold, no_blockage_threshold, enabled) ==
    [ roi_points |-> roi_points,
      ratio_threshold |-> ratio_threshold,
      consecutive_threshold |-> consecutive_threshold,
      no_blockage_threshold |-> no_blockage_threshold,
      enabled |-> enabled,
      _consecutive_count |-> 0,
      _no_blockage_count |-> 0,
      _alarm_state |-> FALSE,
      _roi_mask |-> None,
      _roi_area |-> 0,
      _last_coal_ratio |-> ZeroRatio ]

\* Union of the coal instance masks, intersected with the ROI: (coal_area, coal_ratio).
CoalDetector_calculate_coal_ratio(self, yolo_result) ==
    IF yolo_result.boxes_none \/ ~yolo_result.masks
    THEN [coal_area |-> 0, coal_ratio |-> ZeroRatio]
    ELSE LET coal_mask_total ==
                 UNION {yolo_result.boxes[i].region :
                            i \in {j \in DOMAIN yolo_result.boxes :
                                       yolo_result.boxes[j].cls = coal_class_id}}
             coal_area == Cardinality(coal_mask_total \cap Get(self._roi_mask))
         IN  [coal_area |-> coal_area, coal_ratio |-> Ratio(coal_area, self._roi_area)]

\* Variant: the on-streak counter is not restarted when the threshold is reached.
CoalDetector_update_alarm_state_no_restart(self, coal_ratio) ==
    IF RatioGE(coal_ratio, self.ratio_threshold)
    THEN LET c == self._consecutive_count + 1 IN
         IF c >= self.consecutive_threshold
         THEN [ self |-> [self EXCEPT !._no_blockage_count = 0,
                                      !._consecutive_count = c,
                                      !._alarm_state = TRUE],
                is_blocked |-> TRUE,
                ret |-> ~self._alarm_state ]
         ELSE [ self |-> [self EXCEPT !._no_blockage_count = 0,
                                      !._consecutive_count = c],
                is_blocked |-> FALSE,
                ret |-> FALSE ]
    ELSE LET n == self._no_blockage_count + 1 IN
         IF n >= self.no_blockage_threshold
         THEN [ self |-> [self EXCEPT !._no_blockage_count = n,
                                      !._consecutive_count = 0,
                                      !._alarm_state = FALSE],
                is_blocked |-> FALSE,
                ret |-> FALSE ]
         ELSE [ self |-> [self EXCEPT !._no_blockage_count = n],
                is_blocked |-> FALSE,
                ret |-> FALSE ]

\* Variant: is_blocked follows the armed state on every frame over the threshold.
CoalDetector_update_alarm_state_blocked_while_armed(self, coal_ratio) ==
    IF RatioGE(coal_ratio, self.ratio_threshold)
    THEN LET c == self._consecutive_count + 1 IN
         IF c >= self.consecutive_threshold
         THEN [ self |-> [self EXCEPT !._no_blockage_count = 0,
                                      !._consecutive_count = 0,
                                      !._alarm_state = TRUE],
                is_blocked |-> TRUE,
                ret |-> ~self._alarm_state ]
         ELSE [ self |-> [self EXCEPT !._no_blockage_count = 0,
                                      !._consecutive_count = c],
                is_blocked |-> self._alarm_state,
                ret |-> FALSE ]
    ELSE LET n == self._no_blockage_count + 1 IN
         IF n >= self.no_blockage_threshold
         THEN [ self |-> [self EXCEPT !._no_blockage_count = n,
                                      !._consecutive_count = 0,
                                      !._alarm_state = FALSE],
                is_blocked |-> FALSE,
                ret |-> FALSE ]
         ELSE [ self |-> [self EXCEPT !._no_blockage_count = n],
                is_blocked |-> FALSE,
                ret |-> FALSE ]

CoalDetector_update_alarm_state(self, coal_ratio) ==
    IF RatioGE(coal_ratio, self.ratio_threshold)
    THEN LET c == self._consecutive_count + 1 IN
         IF c >= self.consecutive_threshold
         THEN [ self |-> [self EXCEPT !._no_blockage_count = 0,
                                      !._consecutive_count = 0,
                                      !._alarm_state = TRUE],
                is_blocked |-> TRUE,
                ret |-> ~self._alarm_state ]
         ELSE [ self |-> [self EXCEPT !._no_blockage_count = 0,
                                      !._consecutive_count = c],
                is_blocked |-> FALSE,
                ret |-> FALSE ]
    ELSE LET n == self._no_blockage_count + 1 IN
         IF n >= self.no_blockage_threshold
         THEN [ self |-> [self EXCEPT !._no_blockage_count = n,
                                      !._consecutive_count = 0,
                                      !._alarm_state = FALSE],
                is_blocked |-> FALSE,
                ret |-> FALSE ]
         ELSE [ self |-> [self EXCEPT !._no_blockage_count = n],
                is_blocked |-> FALSE,
                ret |-> FALSE ]

\* Variant: an empty result leaves the off-streak alone.
CoalDetector_create_empty_result_no_count(self) ==
    [ self |-> self,
      result |-> [ detected |-> FALSE, coal_ratio |-> self._last_coal_ratio,
                   roi_area |-> 0, coal_area |-> 0, is_blocked |-> FALSE,
                   consecutive_count |-> 0, should_alarm |-> FALSE ] ]

CoalDetector_create_empty_result(self) ==
    LET n == self._no_blockage_count + 1 IN
    [ self |-> IF n >= self.no_blockage_threshold
               THEN [self EXCEPT !._no_blockage_count = n,
                                 !._consecutive_count = 0,
                                 !._alarm_state = FALSE]
               ELSE [self EXCEPT !._no_blockage_count = n],
      result |-> [ detected |-> FALSE, coal_ratio |-> self._last_coal_ratio,
                   roi_area |-> 0, coal_area |-> 0, is_blocked |-> FALSE,
                   consecutive_count |-> 0, should_alarm |-> FALSE ] ]

CoalDetector_detect(self0, yolo_result) ==
    IF ~self0.enabled
    THEN CoalDetector_create_empty_result(self0)
    ELSE LET self == IF self0._roi_mask = None
                     THEN LET m == create_mask_from_polygon(self0.roi_points, FrameWidth)
                          IN  [self0 EXCEPT !._roi_mask = Some(m), !._roi_area = Cardinality(m)]
                     ELSE self0
         IN  IF self._roi_area = 0
             THEN CoalDetector_create_empty_result(self)
             ELSE IF yolo_result.none \/ ~yolo_result.masks
             THEN CoalDetector_create_empty_result(self)
             ELSE LET calc == CoalDetector_calculate_coal_ratio(self, yolo_result)
                      self1 == [self EXCEPT !._last_coal_ratio = calc.coal_ratio]
                      upd == CoalDetector_update_alarm_state(self1, calc.coal_ratio)
                  IN  [ self |-> upd.self,
                        result |-> [ detected |-> calc.coal_area > 0,
                                     coal_ratio |-> calc.coal_ratio,
                                     roi_area |-> self._roi_area,
                                     coal_area |-> calc.coal_area,
                                     is_blocked |-> upd.is_blocked,
                                     consecutive_count |-> upd.self._consecutive_count,
                                     should_alarm |-> upd.ret ] ]

\* reset()
CoalDetector_reset(self) ==
    [self EXCEPT !._consecutive_count = 0, !._no_blockage_count = 0,
                 !._alarm_state = FALSE, !._last_coal_ratio = ZeroRatio]

\* set_enabled(enabled), its first statement: self.enabled = enabled
CoalDetector_set_enabled(self, enabled) == [self EXCEPT !.enabled = enabled]

CoalDetector_should_turn_off_alarm(self) ==
    self._no_blockage_count >= self.no_blockage_threshold /\ self._alarm_state = FALSE

(***************************************************************************)
(* OptimizedCameraWorker: the coal logic of its detection loop.            *)
(***************************************************************************)
WorkerConfig(roi, ratio_threshold, consecutive_threshold, no_blockage_threshold, enable) ==
    [ roi_coal |-> roi,
      reference_resolution |-> FrameWidth,
      enable_coal |-> enable,
      coal_ratio_threshold |-> ratio_threshold,
      coal_consecutive_threshold |-> consecutive_threshold,
      coal_no_blockage_threshold |-> no_blockage_threshold ]

OptimizedCameraWorker_init(config) ==
    [ config |-> config,
      coal_class_id |-> coal_class_id,
      person_alarm_active |-> FALSE,
      coal_alarm_active |-> FALSE,
      _coal_consecutive_count |-> 0,
      _coal_no_blockage_count |-> 0,
      _last_coal_ratio |-> ZeroRatio ]

OptimizedCameraWorker_scale_roi(self, roi_points, target_w) ==
    [i \in DOMAIN roi_points |-> (roi_points[i] * target_w) \div self.config.reference_resolution]

\* The early return taken before any counting.
OptimizedCameraWorker_no_masks(self, roi_area, result) ==
    roi_area = 0 \/ result.none \/ ~result.masks

\* _detect_coal_blockage(): alerts is the sequence of _alert("coal", is_active, ratio)
\* calls made.
OptimizedCameraWorker_detect_coal_blockage(self, width, result) ==
    LET quiet == [self |-> self, blocked |-> FALSE, coal_ratio |-> ZeroRatio, alerts |-> <<>>]
    IN
    IF ~self.config.enable_coal THEN quiet
    ELSE LET scaled == OptimizedCameraWorker_scale_roi(self, self.config.roi_coal, width) IN
    IF Len(scaled) = 0 THEN quiet
    ELSE LET roi_mask == create_mask_from_polygon(scaled, width)
             roi_area == Cardinality(roi_mask)
         IN
    IF OptimizedCameraWorker_no_masks(self, roi_area, result) THEN quiet
    ELSE LET coal_mask_total ==
                 IF result.none \/ result.boxes_none \/ ~result.masks THEN {}
                 ELSE UNION {result.boxes[i].region :
                                 i \in {j \in DOMAIN result.boxes :
                                            result.boxes[j].cls = self.coal_class_id}}
             coal_ratio == Ratio(Cardinality(coal_mask_total \cap roi_mask), roi_area)
             self1 == [self EXCEPT !._last_coal_ratio = coal_ratio]
         IN
         IF RatioGE(coal_ratio, self.config.coal_ratio_threshold)
         THEN LET c == self._coal_consecutive_count + 1 IN
              IF c >= self.config.coal_consecutive_threshold
              THEN [ self |-> [self1 EXCEPT !._coal_no_blockage_count = 0,
                                            !._coal_consecutive_count = 0,
                                            !.coal_alarm_active = TRUE],
                     blocked |-> TRUE, coal_ratio |-> coal_ratio,
                     alerts |-> IF ~self.coal_alarm_active
                                THEN <<[kind |-> "coal", is_active |-> TRUE]>> ELSE <<>> ]
              ELSE [ self |-> [self1 EXCEPT !._coal_no_blockage_count = 0,
                                            !._coal_consecutive_count = c],
                     blocked |-> FALSE, coal_ratio |-> coal_ratio, alerts |-> <<>> ]
         ELSE LET n == self._coal_no_blockage_count + 1 IN
              IF n >= self.config.coal_no_blockage_threshold
              THEN [ self |-> [self1 EXCEPT !._coal_no_blockage_count = n,
                                            !._coal_consecutive_count = 0,
                                            !.coal_alarm_active = FALSE],
                     blocked |-> FALSE, coal_ratio |-> coal_ratio,
                     alerts |-> IF self.coal_alarm_active
                                THEN <<[kind |-> "coal", is_active |-> FALSE]>> ELSE <<>> ]
              ELSE [ self |-> [self1 EXCEPT !._coal_no_blockage_count = n],
                     blocked |-> FALSE, coal_ratio |-> coal_ratio, alerts |-> <<>> ]

InitWobs ==
    [ cycles |-> 0,            \* detection cycles so far
      on_alerts |-> 0,         \* coal alerts with is_active = TRUE
      off_alerts |-> 0,        \* coal alerts with is_active = FALSE
      nomask_run |-> 0,        \* cycles in a row without masks / without a result
      off_before |-> 0,        \* off-streak counter when that run began
      active_before |-> FALSE  \* coal_alarm_active when that run began
    ]

IdleWorker ==
    /\ worker = OptimizedCameraWorker_init(
                    WorkerConfig(roi_coal, coal_ratio_threshold, coal_consecutive_threshold,
                                 coal_no_blockage_threshold, TRUE))
    /\ wobs = InitWobs

(***************************************************************************)
(* PLCClient.  The snap7 transport is opaque: every operation on it        *)
(* (connect, get_connected, the db_read/db_write pair of write_bit) either *)
(* succeeds or fails, as chosen by the caller of the operator.             *)
(***************************************************************************)
db_number == 300
person_alarm_byte == 6
person_alarm_bit == 0
coal_alarm_byte == 6
coal_alarm_bit == 1
reconnect_attempts == 3

PLCConnectionState == {"disconnected", "connecting", "connected", "error", "reconnecting"}

ByteAddrs == {<<db_number, person_alarm_byte>>, <<db_number, coal_alarm_byte>>}

PLCClient_init(max_reconnect_attempts) ==
    [ max_reconnect_attempts |-> max_reconnect_attempts,
      _client |-> FALSE,          \* TRUE: a snap7 client object exists
      _state |-> "disconnected",
      _reconnect_count |-> 0 ]

PLCClient_is_connected(self) == self._state = "connected"

\* connect(): ok is whether the transport reports connected afterwards.
PLCClient_connect(self, ok) ==
    IF ok
    THEN [ self |-> [self EXCEPT !._client = TRUE, !._state = "connected",
                                 !._reconnect_count = 0],
           ret |-> TRUE ]
    ELSE [ self |-> [self EXCEPT !._client = TRUE, !._state = "error"],
           ret |-> FALSE ]

PLCClient_disconnect(self) == [self EXCEPT !._client = FALSE, !._state = "disconnected"]

\* reconnect(): tried is whether a connection attempt was made.
PLCClient_reconnect(self, ok) ==
    IF self._reconnect_count >= self.max_reconnect_attempts
    THEN [self |-> self, ret |-> FALSE, tried |-> FALSE]
    ELSE [tried |-> TRUE] @@ PLCClient_connect([self EXCEPT !._reconnect_count = @ + 1,
                                                            !._state = "reconnecting",
                                                            !._client = FALSE], ok)

\* check_connection(): alive is what get_connected() answers.
PLCClient_check_connection(self, alive) ==
    IF ~self._client
    THEN [ self |-> IF self._state = "connected"
                    THEN [self EXCEPT !._state = "disconnected"] ELSE self,
           ret |-> FALSE ]
    ELSE [ self |-> IF ~alive /\ self._state = "connected"
                    THEN [self EXCEPT !._state = "disconnected"] ELSE self,
           ret |-> alive ]

\* health_check() once it is due, given chk, the result of check_connection().
PLCClient_health_check_due(chk, ok) ==
    IF ~chk.ret
    THEN IF chk.self._reconnect_count < chk.self.max_reconnect_attempts
         THEN PLCClient_reconnect(chk.self, ok)
         ELSE [ self |-> IF chk.self._reconnect_count >= chk.self.max_reconnect_attempts * 2
                         THEN [chk.self EXCEPT !._reconnect_count = 0]
                         ELSE chk.self,
                ret |-> FALSE, tried |-> FALSE ]
    ELSE [self |-> chk.self, ret |-> TRUE, tried |-> FALSE]

\* health_check(): due is whether health_check_interval has elapsed.
PLCClient_health_check(self, due, alive, ok) ==
    IF ~due
    THEN [self |-> self, ret |-> PLCClient_is_connected(self), tried |-> FALSE]
    ELSE PLCClient_health_check_due(PLCClient_check_connection(self, alive), ok)

\* set_bool on the byte that was read.
set_bool(bits, bit_offset, value) ==
    IF value THEN bits \cup {bit_offset} ELSE bits \ {bit_offset}

\* write_bit(): read the byte, set the bit, write the byte back.  wire is whether
\* the byte was written to the PLC.
PLCClient_write_bit(self, mem, db, byte_offset, bit_offset, value, ok) ==
    IF ~PLCClient_is_connected(self)
    THEN [self |-> self, mem |-> mem, ret |-> FALSE, wire |-> FALSE]
    ELSE IF ok
    THEN [ self |-> self,
           mem |-> [mem EXCEPT ![<<db, byte_offset>>] = set_bool(@, bit_offset, value)],
           ret |-> TRUE, wire |-> TRUE ]
    ELSE [ self |-> [self EXCEPT !._state = "error"],
           mem |-> mem, ret |-> FALSE, wire |-> FALSE ]

(***************************************************************************)
(* AlarmManager                                                            *)
(***************************************************************************)
AlarmType == {"person", "coal"}
ON == TRUE
OFF == FALSE

AlarmConfig(db, byte_offset, bit_offset) ==
    [db_number |-> db, byte_offset |-> byte_offset, bit_offset |-> bit_offset]

\* __init__ with the recorded states ON
AlarmManager_init_recorded_on(person_alarm, coal_alarm) ==
    [ _alarm_configs |-> [person |-> person_alarm, coal |-> coal_alarm],
      _alarm_states |-> [person |-> ON, coal |-> ON] ]

AlarmManager_init(person_alarm, coal_alarm) ==
    [ _alarm_configs |-> [person |-> person_alarm, coal |-> coal_alarm],
      _alarm_states |-> [person |-> OFF, coal |-> OFF] ]

\* Outcomes of the transport operations one _send_to_plc may perform.
Outcomes == [due : BOOLEAN, alive : BOOLEAN, hc : BOOLEAN, w1 : BOOLEAN, rc : BOOLEAN, w2 : BOOLEAN]
AllGood == [due |-> TRUE, alive |-> TRUE, hc |-> TRUE, w1 |-> TRUE, rc |-> TRUE, w2 |-> TRUE]

\* The outcomes that can make a difference to a send that starts from client: the
\* operations a send does not reach are left at TRUE.
OutcomesFor(client) ==
    {o \in Outcomes : /\ PLCClient_is_connected(client) => (o.due /\ o.alive /\ o.hc)
                      /\ o.w1 => (o.rc /\ o.w2)
                      /\ ~o.rc => o.w2}

\* _send_to_plc() is given in four parts, each taking the result of the transport
\* operation before it.  In the results, calls = write_bit calls made, wires = bytes
\* written to the PLC, reconnects = reconnect() calls made.
SendResult(client, mem, ret, calls, wires, reconnects) ==
    [ client |-> client, mem |-> mem, ret |-> ret,
      calls |-> calls, wires |-> wires, reconnects |-> reconnects ]

\* ... after the second write_bit, whose result is b
AlarmManager_send_to_plc_retried(b) ==
    SendResult(b.self, b.mem, b.ret, 2, IF b.wire THEN 1 ELSE 0, 1)

\* ... after reconnect(), whose result is r
AlarmManager_send_to_plc_reconnected(r, mem, config, value, o) ==
    IF ~r.ret
    THEN SendResult(r.self, mem, FALSE, 1, 0, 1)
    ELSE AlarmManager_send_to_plc_retried(
             PLCClient_write_bit(r.self, mem, config.db_number, config.byte_offset,
                                 config.bit_offset, value, o.w2))

\* ... after the first write_bit, whose result is a
AlarmManager_send_to_plc_written(a, config, value, o) ==
    IF a.ret
    THEN SendResult(a.self, a.mem, TRUE, 1, 1, 0)
    ELSE AlarmManager_send_to_plc_reconnected(PLCClient_reconnect(a.self, o.rc),
                                              a.mem, config, value, o)

\* ... after the connection test, whose result is hc; hc_reconnects = reconnect()
\* calls that health_check() made.
AlarmManager_send_to_plc_checked(hc, mem, config, value, o) ==
    [hc_reconnects |-> IF hc.tried THEN 1 ELSE 0] @@
    IF ~hc.ret
    THEN SendResult(hc.self, mem, FALSE, 0, 0, 0)
    ELSE AlarmManager_send_to_plc_written(
             PLCClient_write_bit(hc.self, mem, config.db_number, config.byte_offset,
                                 config.bit_offset, value, o.w1),
             config, value, o)

AlarmManager_send_to_plc(client, mem, config, value, o) ==
    AlarmManager_send_to_plc_checked(
        IF PLCClient_is_connected(client)
        THEN [self |-> client, ret |-> TRUE, tried |-> FALSE]
        ELSE PLCClient_health_check(client, o.due, o.alive, o.hc),
        mem, config, value, o)

\* Variant: the requested state is recorded whether or not the send succeeded.
AlarmManager_commit_always(self, alarm_type, state, success) ==
    [self EXCEPT !._alarm_states[alarm_type] = state]

\* The part of set_alarm after a successful or failed send: the state is recorded
\* and on_alarm_change is called only when the send succeeded.
AlarmManager_commit(self, alarm_type, state, success) ==
    IF success
    THEN [self EXCEPT !._alarm_states[alarm_type] = state]
    ELSE self

\* set_alarm() after _send_to_plc, whose result is s.
AlarmManager_set_alarm_sent(self, alarm_type, state, s) ==
    [ self |-> AlarmManager_commit(self, alarm_type, state, s.ret),
      client |-> s.client, mem |-> s.mem, ret |-> s.ret,
      sent |-> TRUE, callback |-> s.ret,
      calls |-> s.calls, wires |-> s.wires, reconnects |-> s.reconnects,
      hc_reconnects |-> s.hc_reconnects ]

\* Variant: the request is sent without comparing it with the recorded state.
AlarmManager_set_alarm_always_send(self, client, mem, alarm_type, state, o) ==
    AlarmManager_set_alarm_sent(self, alarm_type, state,
        AlarmManager_send_to_plc(client, mem, self._alarm_configs[alarm_type], state, o))

\* set_alarm(): sent = _send_to_plc was called, callback = on_alarm_change was called.
AlarmManager_set_alarm(self, client, mem, alarm_type, state, o) ==
    IF self._alarm_states[alarm_type] = state
    THEN [ self |-> self, client |-> client, mem |-> mem, ret |-> TRUE,
           sent |-> FALSE, callback |-> FALSE, calls |-> 0, wires |-> 0, reconnects |-> 0,
           hc_reconnects |-> 0 ]
    ELSE AlarmManager_set_alarm_sent(self, alarm_type, state,
             AlarmManager_send_to_plc(client, mem, self._alarm_configs[alarm_type],
                                      state, o))

NotCalled(self, client, mem) ==
    [ self |-> self, client |-> client, mem |-> mem, ret |-> TRUE, called |-> FALSE ]

\* One iteration of turn_off_all(): set_alarm(OFF) if the recorded state is ON.
AlarmManager_turn_off(self, client, mem, alarm_type, o) ==
    IF self._alarm_states[alarm_type] = ON
    THEN [called |-> TRUE] @@ AlarmManager_set_alarm(self, client, mem, alarm_type, OFF, o)
    ELSE NotCalled(self, client, mem)

TurnOffAllResult(a, b) ==
    [ self |-> b.self, client |-> b.client, mem |-> b.mem, ret |-> a.ret /\ b.ret,
      first |-> a, second |-> b ]

\* turn_off_all() after its first iteration, whose result is a.
AlarmManager_turn_off_all_rest(a, o2) ==
    TurnOffAllResult(a, AlarmManager_turn_off(a.self, a.client, a.mem, "coal", o2))

\* turn_off_all(): set_alarm(OFF) for every configured kind whose recorded state is ON.
AlarmManager_turn_off_all(self, client, mem, o1, o2) ==
    AlarmManager_turn_off_all_rest(AlarmManager_turn_off(self, client, mem, "person", o1), o2)

\* reset(): forget the recorded states without sending anything.
AlarmManager_reset(self) == [self EXCEPT !._alarm_states = [person |-> OFF, coal |-> OFF]]

(***************************************************************************)
(* Observation of the AlarmManager calls.                                  *)
(***************************************************************************)
ZeroCount == [person |-> [on |-> 0, off |-> 0], coal |-> [on |-> 0, off |-> 0]]
OnOff(state) == IF state THEN "on" ELSE "off"

NoCall ==
    [ kind |-> "person", requested |-> OFF, prev |-> OFF, ret |-> TRUE, sent |-> FALSE,
      callback |-> FALSE, calls |-> 0, wires |-> 0, reconnects |-> 0, hc_reconnects |-> 0,
      healthy |-> TRUE,
      bit |-> FALSE, bit_before |-> FALSE ]

InitAlog ==
    [ calls |-> 0,               \* set_alarm calls so far
      healthy |-> TRUE,          \* the link was connected and no operation failed so far
      want |-> [person |-> OFF, coal |-> OFF],   \* last state requested, per kind
      edges |-> ZeroCount,       \* requests that differ from the request before them
      writes |-> ZeroCount,      \* bytes written to the PLC, per kind and value
      preset |-> [person |-> FALSE, coal |-> FALSE],   \* the bit was 1 in the PLC at construction
      armed |-> [person |-> FALSE, coal |-> FALSE],    \* a set_alarm(kind, ON) has returned True
      off_asked |-> [person |-> FALSE, coal |-> FALSE],   \* set_alarm(kind, OFF) was called before any ON returned True
      swept |-> FALSE,           \* turn_off_all() was called
      last |-> NoCall ]          \* the last set_alarm call

BitOf(mem, config) == config.bit_offset \in mem[<<config.db_number, config.byte_offset>>]

ObserveCall(h, am, client, mem, kind, state, o, r) ==
    LET ok_link == PLCClient_is_connected(client) /\ o = AllGood IN
    [ calls |-> h.calls + 1,
      healthy |-> h.healthy /\ ok_link,
      want |-> [h.want EXCEPT ![kind] = state],
      edges |-> IF h.want[kind] # state
                THEN [h.edges EXCEPT ![kind][OnOff(state)] = @ + 1] ELSE h.edges,
      writes |-> [h.writes EXCEPT ![kind][OnOff(state)] = @ + r.wires],
      preset |-> h.preset,
      armed |-> [h.armed EXCEPT ![kind] = @ \/ (state = ON /\ r.ret)],
      off_asked |-> [h.off_asked EXCEPT ![kind] = @ \/ (state = OFF /\ ~h.armed[kind])],
      swept |-> h.swept,
      last |-> [ kind |-> kind, requested |-> state, prev |-> am._alarm_states[kind],
                 ret |-> r.ret, sent |-> r.sent, callback |-> r.callback,
                 calls |-> r.calls, wires |-> r.wires, reconnects |-> r.reconnects,
                 hc_reconnects |-> r.hc_reconnects,
                 healthy |-> ok_link,
                 bit |-> BitOf(r.mem, am._alarm_configs[kind]),
                 bit_before |-> BitOf(mem, am._alarm_configs[kind]) ] ]

IdlePlc ==
    /\ plc = PLCClient_init(reconnect_attempts)
    /\ plc_mem = [a \in ByteAddrs |-> {}]
    /\ alarm = AlarmManager_init(AlarmConfig(db_number, person_alarm_byte, person_alarm_bit),
                                 AlarmConfig(db_number, coal_alarm_byte, coal_alarm_bit))
    /\ alog = InitAlog


(***************************************************************************)
(* CameraMonitor: one start() / stop() cycle of a monitor, its detection   *)
(* thread and the thread that calls stop().                                *)
(***************************************************************************)
MonitorConfig(plc_enabled, on_threshold, off_threshold) ==
    [ plc_enabled |-> plc_enabled,
      person_consecutive_threshold |-> on_threshold,
      person_no_detection_threshold |-> off_threshold,
      coal_consecutive_threshold |-> on_threshold,
      coal_no_blockage_threshold |-> off_threshold ]

CameraMonitor_init(config) ==
    [ config |-> config,
      _state |-> "stopped",
      _stop_event |-> FALSE,
      _alarm_manager |-> FALSE,     \* TRUE: the attribute holds an AlarmManager
      _plc_client |-> FALSE,        \* TRUE: the attribute holds a PLCClient
      _person_detector |-> FALSE,   \* TRUE: the attribute holds a PersonDetector
      _coal_detector |-> FALSE,     \* TRUE: the attribute holds a CoalDetector
      started |-> FALSE,            \* start() has been called
      cpc |-> "idle",               \* position of the thread calling stop()
      dpc |-> "none",               \* position of the detection thread
      person_result |-> FALSE,      \* person_result.should_alarm of the frame in progress
      coal_result |-> FALSE ]       \* coal_result.should_alarm of the frame in progress

\* What _handle_person_alarm asks of the alarm manager: "on", "off", "none", or
\* "raise" when the detector attribute has been cleared under it.
CameraMonitor_handle_person_alarm_never_off(m, should_alarm, detector, am) ==
    IF should_alarm /\ m._alarm_manager THEN "on" ELSE "none"

\* Variant: the ON request is repeated while the detector is armed and the alarm
\* manager has not recorded ON.
CameraMonitor_handle_person_alarm_retry(m, should_alarm, detector, am) ==
    IF should_alarm \/ (m._person_detector /\ detector._alarm_state
                           /\ am._alarm_states["person"] # ON)
    THEN IF m._alarm_manager THEN "on" ELSE "none"
    ELSE IF ~m._person_detector THEN "raise"
    ELSE IF PersonDetector_should_turn_off_alarm(detector)
    THEN IF m._alarm_manager /\ am._alarm_states["person"] = ON THEN "off" ELSE "none"
    ELSE "none"

CameraMonitor_handle_person_alarm(m, should_alarm, detector, am) ==
    IF should_alarm
    THEN IF m._alarm_manager THEN "on" ELSE "none"
    ELSE IF ~m._person_detector THEN "raise"
    ELSE IF PersonDetector_should_turn_off_alarm(detector)
    THEN IF m._alarm_manager /\ am._alarm_states["person"] = ON THEN "off" ELSE "none"
    ELSE "none"

\* Variant: the coal handler never asks for OFF.
CameraMonitor_handle_coal_alarm_never_off(m, should_alarm, detector, am) ==
    IF should_alarm /\ m._alarm_manager THEN "on" ELSE "none"

CameraMonitor_handle_coal_alarm(m, should_alarm, detector, am) ==
    IF should_alarm
    THEN IF m._alarm_manager THEN "on" ELSE "none"
    ELSE IF ~m._coal_detector THEN "raise"
    ELSE IF CoalDetector_should_turn_off_alarm(detector)
    THEN IF m._alarm_manager /\ am._alarm_states["coal"] = ON THEN "off" ELSE "none"
    ELSE "none"

\* _process_frame ends in its except clause before any detector or handler has run:
\* predict() raised, or a detector attribute has been cleared by _cleanup.
CameraMonitor_process_frame_drops_on_cleanup_only(m, raises) ==
    ~m._person_detector \/ ~m._coal_detector

CameraMonitor_process_frame_drops(m, raises) ==
    raises \/ ~m._person_detector \/ ~m._coal_detector

\* _cleanup(): the detectors and the PLC client attribute are cleared; the alarm
\* manager attribute (and the client object it holds) is not.
CameraMonitor_cleanup(m) ==
    [m EXCEPT !._plc_client = FALSE, !._person_detector = FALSE, !._coal_detector = FALSE]

InitMobs ==
    [ frames |-> 0,            \* frames handed to _process_frame
      ok |-> TRUE,             \* the PLC connected at start and every send succeeded at once
      arm_edges |-> [person |-> 0, coal |-> 0],   \* results with should_alarm
      disarms |-> [person |-> 0, coal |-> 0],     \* detect() calls that disarmed
      sent |-> ZeroCount,      \* write attempts (set_alarm calls that reached _send_to_plc)
      faults |-> 0,            \* sends during which some transport operation failed
      raised |-> 0,            \* frames for which predict() raised
      recovered |-> FALSE,     \* a frame after such a frame went through both detectors
      failed_on |-> [person |-> FALSE, coal |-> FALSE],
                               \* the ON call of the last arm edge returned False, and the
                               \* detector has not disarmed since
      retried |-> FALSE,       \* an ON call was made while failed_on held for its kind
      after_fail |-> FALSE     \* a later frame left the person detector armed while
                               \* failed_on held for it
    ]

\* _set_state(): the state is replaced, and the callback called, when it differs.
CameraMonitor_set_state(m, new_state) == [m EXCEPT !._state = new_state]

\* start() up to the try block: it returns at once when RUNNING, else STARTING.
CameraMonitor_start_enter_skipped(m) == m

CameraMonitor_start_enter(m) ==
    IF m._state = "running" THEN m ELSE CameraMonitor_set_state(m, "starting")

\* start(), the try block up to the start of the two threads.  ok: neither
\* _init_components nor the video source failed; otherwise the except clause sets
\* ERROR and cleans up.
CameraMonitor_start_threads(m, ok) ==
    IF ok
    THEN [m EXCEPT !.started = TRUE, !._person_detector = TRUE, !._coal_detector = TRUE,
                   !._plc_client = m.config.plc_enabled,
                   !._alarm_manager = m.config.plc_enabled,
                   !._stop_event = FALSE, !.dpc = "loop"]
    ELSE CameraMonitor_set_state(CameraMonitor_cleanup([m EXCEPT !.started = TRUE]), "error")

\* stop() up to turn_off_all: it returns at once when STOPPED, else STOPPING.
CameraMonitor_stop_enter(m) ==
    IF m._state = "stopped" THEN m ELSE CameraMonitor_set_state(m, "stopping")

\* stop() of a monitor without a PLC, from _stop_event.set() on: the threads are
\* joined, _cleanup stops the video source and drops the frame buffer, STOPPED.
CameraMonitor_stop_finish(m) ==
    CameraMonitor_set_state(CameraMonitor_cleanup([m EXCEPT !._stop_event = TRUE, !.dpc = "none"]),
                            "stopped")

MonitoringState == {"stopped", "starting", "running", "stopping", "error"}

InitLife ==
    [ queued |-> 0,        \* frames in the detection buffer (DualFrameBuffer, maxsize 2)
      calls |-> 0,         \* start() and stop() calls made
      frames |-> 0,        \* frames _on_video_frame received since the last start()
      detections |-> 0,    \* detection cycles that ran since the last start()
      entered |-> [s \in MonitoringState |-> 0]   \* times _set_state changed the state to s
    ]

IdleMonitor ==
    /\ mon = CameraMonitor_init(MonitorConfig(TRUE, person_consecutive_threshold,
                                              person_no_detection_threshold))
    /\ mobs = InitMobs
    /\ life = InitLife

(***************************************************************************)
(* MultiModelLoader and the threads that run inference: the detection      *)
(* thread of a CameraMonitor, through predict(), and the detection loop of *)
(* an OptimizedCameraWorker, with the model and lock start_all handed it.  *)
(***************************************************************************)
Cameras == 1 .. MaxCameras
Models == {"m1", "m2"}
NoModel == "none"
Free == <<>>

\* A lock object is named after what created it: the loader, for a model id.
LoaderLock(model_id) == <<"loader", model_id>>
\* Variant: a lock made for one worker alone.
OwnLock(camera) == <<"worker", camera>>
LockObjects == {LoaderLock(m) : m \in Models} \cup {OwnLock(c) : c \in Cameras}

MultiModelLoader_init ==
    [ _models |-> <<>>,                              \* loaded model ids, in load order
      _camera_model_map |-> [c \in Cameras |-> NoModel],
      _inference_locks |-> [m \in Models |-> Free] ]  \* Free: no lock made yet

InModels(self, model_id) == \E i \in DOMAIN self._models : self._models[i] = model_id

\* load(): the lock is made if there is none, then the model and its cameras are recorded.
MultiModelLoader_load(self, model_id, cameras) ==
    IF InModels(self, model_id) THEN self
    ELSE [ _models |-> Append(self._models, model_id),
           _camera_model_map |-> [c \in Cameras |-> IF c \in cameras THEN model_id
                                                    ELSE self._camera_model_map[c]],
           _inference_locks |-> [self._inference_locks EXCEPT ![model_id] =
                                     IF @ = Free THEN LoaderLock(model_id) ELSE @] ]

\* load() that raises: nothing is recorded; the lock exists if YOLO() was reached.
MultiModelLoader_load_raises(self, model_id, lock_made) ==
    IF lock_made
    THEN [self EXCEPT !._inference_locks[model_id] = IF @ = Free THEN LoaderLock(model_id) ELSE @]
    ELSE self

\* get_model_info_for_camera(): the mapped model, else the first one, else none.
MultiModelLoader_get_model_info_for_camera(self, camera_number) ==
    IF self._camera_model_map[camera_number] # NoModel
    THEN IF InModels(self, self._camera_model_map[camera_number])
         THEN self._camera_model_map[camera_number] ELSE NoModel
    ELSE IF Len(self._models) > 0 THEN self._models[1] ELSE NoModel

\* The model predict() resolves for a camera; NoModel stands for the RuntimeError.
MultiModelLoader_predict_model(self, camera_number) ==
    LET model_id == IF self._camera_model_map[camera_number] # NoModel
                    THEN self._camera_model_map[camera_number]
                    ELSE IF Len(self._models) > 0 THEN self._models[1] ELSE NoModel
    IN  IF model_id # NoModel /\ InModels(self, model_id) THEN model_id ELSE NoModel

\* Variant: start_all makes a lock of its own for each worker.
ProductionApp_model_lock_private(self, model_id, camera) == OwnLock(camera)

\* The lock start_all passes to the worker of a camera: the loader's lock for the model.
ProductionApp_model_lock(self, model_id, camera) == self._inference_locks[model_id]

NoWorker == [model |-> NoModel, lock |-> Free]

\* start_all(): one worker per camera that has a model and a lock.
ProductionApp_start_all(self) ==
    [c \in Cameras |->
        LET model_id == MultiModelLoader_get_model_info_for_camera(self, c) IN
        IF model_id = NoModel THEN NoWorker
        ELSE LET model_lock == ProductionApp_model_lock(self, model_id, c) IN
             IF model_lock = Free THEN NoWorker
             ELSE [model |-> model_id, lock |-> model_lock]]

\* The configuration as far as load() has seen it: the models that list each camera.
InitLobs == [listed |-> [c \in Cameras |-> {}], failed |-> {}]
Listed(listed, model_id, cameras) ==
    [c \in Cameras |-> IF c \in cameras THEN listed[c] \cup {model_id} ELSE listed[c]]

Threads == {<<path, c>> : path \in {"monitor", "worker"}, c \in Cameras}
IdleThread == [pc |-> "idle", model |-> NoModel, lock |-> Free]

IdleInference ==
    /\ loader = MultiModelLoader_init
    /\ workers = [c \in Cameras |-> NoWorker]
    /\ locks = [l \in LockObjects |-> Free]
    /\ inf = [t \in Threads |-> IdleThread]
    /\ lobs = InitLobs

(***************************************************************************)
(* FrameBuffer (src/camera/frame_buffer.py).  _queue is a queue.Queue:     *)
(* each call on it is atomic, a sequence of calls is not.  put() runs      *)
(* under self._lock, and += on the counter is a load followed by a store.  *)
(* get(), get_latest() and clear() call the queue without self._lock.      *)
(* A queued element is the frame_id of its FrameData.                      *)
(***************************************************************************)
MaxPuts == 4
MaxSize == 2
Producers == {"p1", "p2"}
Consumers == {"c1"}
BufferThreads == Producers \cup Consumers

FrameBuffer_init(maxsize) ==
    [ _maxsize |-> maxsize,
      _queue |-> <<>>,
      _lock |-> Free,
      _frame_counter |-> 0,
      _dropped_count |-> 0,
      _latest_frame |-> None ]

\* Variant: put() enters its body without waiting for the lock.
FrameBuffer_lock_unguarded(self) == TRUE

\* with self._lock: the body is entered when no thread holds the lock.
FrameBuffer_lock_free(self) == self._lock = Free

\* queue.Queue.full(): 0 < maxsize <= qsize.
FrameBuffer_queue_full(self) == self._maxsize > 0 /\ Len(self._queue) >= self._maxsize

\* Variant: the oldest frame is removed and the drop is not counted.
FrameBuffer_put_drop_uncounted(self) ==
    IF Len(self._queue) > 0 THEN [self EXCEPT !._queue = Tail(@)] ELSE self

\* Variant: nothing is removed from a full queue.
FrameBuffer_put_drop_nothing(self) == self

\* put() on a queue it found full: get_nowait() and the drop counter; queue.Empty is passed.
FrameBuffer_put_drop(self) ==
    IF Len(self._queue) > 0
    THEN [self EXCEPT !._queue = Tail(@), !._dropped_count = @ + 1]
    ELSE self

\* Variant: the new frame goes to the head of the queue.
FrameBuffer_put_enqueue_front(self, frame_data) ==
    IF FrameBuffer_queue_full(self)
    THEN [self EXCEPT !._dropped_count = @ + 1, !._lock = Free]
    ELSE [self EXCEPT !._queue = <<frame_data>> \o @,
                      !._latest_frame = Some(frame_data),
                      !._lock = Free]

\* put(): put_nowait(frame_data) and _latest_frame, or queue.Full and the drop counter;
\* the lock is released on the way out.
FrameBuffer_put_enqueue(self, frame_data) ==
    IF FrameBuffer_queue_full(self)
    THEN [self EXCEPT !._dropped_count = @ + 1, !._lock = Free]
    ELSE [self EXCEPT !._queue = Append(@, frame_data),
                      !._latest_frame = Some(frame_data),
                      !._lock = Free]

\* A thread outside the FrameBuffer; inside put() it holds the counter it loaded (n),
\* its frame_data, the drop counter it found (d0) and what its drop step met: a full
\* queue (full), from which exactly the oldest frame went (exact).
IdleBufferThread == [pc |-> "idle", n |-> 0, frame_data |-> 0, latest |-> 0, d0 |-> 0, full |-> FALSE, exact |-> FALSE]

NoPut == [done |-> FALSE, full |-> FALSE, exact |-> FALSE, frame_id |-> 0, after |-> <<>>, counted |-> 0, ok |-> FALSE]

InitBobs ==
    [ calls |-> 0,          \* put() calls made
      ids |-> <<>>,         \* frame ids, in the order the puts took effect
      prev_ret |-> 0,       \* the frame returned to the consumer before last (0: none)
      last_ret |-> 0,       \* the frame last returned to the consumer (0: none)
      returned |-> 0,       \* frames returned to the consumer by get() and get_latest()
      taken |-> 0,          \* frames get() and get_latest() took out of the queue
      cleared |-> 0,        \* frames clear() took out of the queue
      put |-> NoPut ]       \* the last put() that ran to its end

IdleBuffer ==
    /\ fb = FrameBuffer_init(0)
    /\ bth = [t \in BufferThreads |-> IdleBufferThread]
    /\ bobs = InitBobs

(***************************************************************************)
(* OptimizedVideoSource (src/camera/optimized_source.py).  The instance    *)
(* is held together with the position of its capture thread (tpc) and of   *)
(* the caller of stop() (spc).  _cap is None or a VideoCapture object that *)
(* is opened or not; _cap_lock is a threading.Lock, which its own holder   *)
(* cannot acquire again.  Intervals are in units of 1/256 s, so that the   *)
(* products by 1.5 are exact.  The clock is not modelled: the guard        *)
(* against reconnecting too often is an input, and it cannot hold before   *)
(* _last_reconnect_time has been set.  fail_count is kept up to 3, the     *)
(* only value the code compares it with.                                   *)
(***************************************************************************)
ConnectionStatus == {"disconnected", "connecting", "connected", "reconnecting", "error"}
MIN_RECONNECT_INTERVAL == 128
MAX_RECONNECT_INTERVAL == 2560
FailLimit == 3

\* min(interval * 1.5, MAX_RECONNECT_INTERVAL)
Backoff(interval) ==
    IF 3 * interval >= 2 * MAX_RECONNECT_INTERVAL THEN MAX_RECONNECT_INTERVAL
    ELSE (3 * interval) \div 2

VideoCapture(opened) == Some([opened |-> opened])
IsOpened(cap) == cap # None /\ Get(cap).opened

OptimizedVideoSource_init(source_type) ==
    [ _source_type |-> source_type,
      _cap |-> None,
      _cap_lock |-> Free,
      _is_running |-> FALSE,
      _stop_event |-> FALSE,
      _status |-> "disconnected",
      _reconnect_interval |-> MIN_RECONNECT_INTERVAL,
      _last_reconnect_time |-> 0,        \* 0: never set; 1: the time of the last attempt
      fail_count |-> 0,
      _latest_frame |-> None,
      tpc |-> "off",
      hd_from |-> "read",                \* where _handle_disconnection was called from
      spc |-> "idle" ]

\* Variant: the thread is started although the source did not open.
OptimizedVideoSource_start_thread_anyway(self, available, raises) ==
    IF self._is_running THEN self
    ELSE [self EXCEPT !._cap = IF raises THEN None ELSE VideoCapture(available),
                      !._status = IF available THEN "connected" ELSE "error",
                      !._is_running = TRUE,
                      !._stop_event = FALSE,
                      !.tpc = "loop"]

\* start(): CONNECTING, _open_source(), then the thread; ERROR when the source does not
\* open, be it that isOpened() is false or that VideoCapture raises.
OptimizedVideoSource_start(self, available, raises) ==
    IF self._is_running THEN self
    ELSE IF ~available
    THEN [self EXCEPT !._cap = IF raises THEN None ELSE VideoCapture(FALSE),
                      !._status = "error"]
    ELSE [self EXCEPT !._cap = VideoCapture(TRUE),
                      !._reconnect_interval = MIN_RECONNECT_INTERVAL,
                      !.fail_count = 0,
                      !._status = "connected",
                      !._is_running = TRUE,
                      !._stop_event = FALSE,
                      !.tpc = "loop"]

\* What start() returns.
OptimizedVideoSource_start_returns(self, available) == self._is_running \/ available

\* The _report_error calls of one _open_source(): one where isOpened() is false, one
\* in the except branch, none when the source opened.
OptimizedVideoSource_open_source_reports(available) == IF available THEN 0 ELSE 1

\* The positions at which the capture thread acquires _cap_lock.
CaptureAcquires == {"check", "hd_file", "hd_release", "hd_open", "read"}

\* _handle_disconnection() returns: to the with block of the connection check, which
\* releases the lock and continues, or to the end of the loop body.
OptimizedVideoSource_hd_return(self) ==
    IF self.hd_from = "check" THEN [self EXCEPT !._cap_lock = Free, !.tpc = "loop"]
    ELSE [self EXCEPT !.tpc = "loop"]

\* _open_source(): the VideoCapture call under the lock, then the status.
OptimizedVideoSource_open_source(self, available) ==
    CASE self.tpc = "hd_open" ->
            [self EXCEPT !._cap_lock = Some("capture"), !.tpc = "open"]
      [] self.tpc = "open" /\ available ->
            [self EXCEPT !._cap = VideoCapture(TRUE), !._cap_lock = Free, !.tpc = "open_status"]
      [] self.tpc = "open" /\ ~available ->
            OptimizedVideoSource_hd_return(
                [self EXCEPT !._cap = VideoCapture(FALSE), !._cap_lock = Free,
                             !._reconnect_interval = Backoff(@)])
      [] self.tpc = "open_status" ->
            OptimizedVideoSource_hd_return(
                [self EXCEPT !._reconnect_interval = MIN_RECONNECT_INTERVAL,
                             !.fail_count = 0,
                             !._status = "connected"])

\* _handle_disconnection(): a file is rewound; a network source is released and
\* reopened unless the last attempt is more recent than the current interval.
OptimizedVideoSource_handle_disconnection(self, too_soon) ==
    CASE self.tpc = "hd" /\ self._source_type = "file" ->
            [self EXCEPT !.tpc = "hd_file"]
      [] self.tpc = "hd" /\ self._source_type # "file" /\ too_soon ->
            OptimizedVideoSource_hd_return(self)
      [] self.tpc = "hd" /\ self._source_type # "file" /\ ~too_soon ->
            [self EXCEPT !._last_reconnect_time = 1, !._status = "reconnecting",
                         !.tpc = "hd_release"]
      [] self.tpc = "hd_file" ->
            OptimizedVideoSource_hd_return(self)
      [] self.tpc = "hd_release" ->
            [self EXCEPT !._cap = None, !.tpc = "hd_open"]

\* _capture_loop(), one step of the thread.  A read returns a frame when the handle
\* is opened and the camera is there; a read that fails and a read that raises are
\* handled alike.
OptimizedVideoSource_capture_loop(self, available) ==
    CASE self.tpc = "loop" ->
            IF self._stop_event \/ ~self._is_running THEN [self EXCEPT !.tpc = "exit"]
            ELSE [self EXCEPT !.tpc = "check"]
      [] self.tpc = "check" ->
            IF ~IsOpened(self._cap)
            THEN [self EXCEPT !._cap_lock = Some("capture"), !.tpc = "hd", !.hd_from = "check"]
            ELSE [self EXCEPT !.tpc = "read"]
      [] self.tpc = "read" ->
            IF self._cap = None THEN [self EXCEPT !.tpc = "loop"]
            ELSE [self EXCEPT !._cap_lock = Some("capture"), !.tpc = "reading"]
      [] self.tpc = "reading" /\ IsOpened(self._cap) /\ available ->
            [self EXCEPT !._cap_lock = Free, !._latest_frame = Some("frame"),
                         !.fail_count = 0, !._status = "connected", !.tpc = "loop"]
      [] self.tpc = "reading" /\ ~(IsOpened(self._cap) /\ available) ->
            IF self.fail_count + 1 >= FailLimit
            THEN [self EXCEPT !._cap_lock = Free, !.fail_count = FailLimit,
                              !.tpc = "hd", !.hd_from = "read"]
            ELSE [self EXCEPT !._cap_lock = Free, !.fail_count = @ + 1, !.tpc = "loop"]

\* The capture thread waits for a lock: it is at an acquire and the lock is held.
CaptureWaits(self) == self.tpc \in CaptureAcquires /\ self._cap_lock # Free

\* The capture thread is inside a call that returns when the network lets it.
CaptureInCall(self) == self.tpc \in {"open", "reading"}

\* stop(), one step of its caller.  join(timeout=2.0) returns when the thread has
\* ended, or after 2 s while the thread waits for a lock or is inside a call.
OptimizedVideoSource_stop(self) ==
    CASE self.spc = "idle" /\ ~self._is_running ->
            [self EXCEPT !.spc = "returned"]
      [] self.spc = "idle" /\ self._is_running ->
            [self EXCEPT !._is_running = FALSE, !._stop_event = TRUE, !.spc = "join"]
      [] self.spc = "join" ->
            [self EXCEPT !.spc = "release"]
      [] self.spc = "release" ->
            [self EXCEPT !._cap = None, !.spc = "status"]
      [] self.spc = "status" ->
            [self EXCEPT !._status = "disconnected", !.spc = "done"]

MaxOutages == 2

\* The last start() call that went to _open_source(): whether the source opened,
\* what start() returned and how often the error callback was invoked.
NoStart == [called |-> FALSE, opened |-> FALSE, ret |-> FALSE, reports |-> 0]

InitSobs ==
    [ available |-> TRUE,   \* the camera answers: the source opens and reads return frames
      changes |-> 0,        \* how often the camera went away or came back
      start |-> NoStart ]

IdleSource ==
    /\ src = OptimizedVideoSource_init("rtsp")
    /\ sobs = InitSobs

(***************************************************************************)
(* OptimizedCameraWorker, capture side (src/core/optimized_worker.py).     *)
(* The instance is held together with the positions of its capture thread  *)
(* (tpc), its detection thread (dpc) and the caller of stop() (spc).  A    *)
(* frame is its capture position (_frame_count when it was read) and the   *)
(* connection it was read from (the number of successful connects so far). *)
(* Intervals, the clock and the fail count are represented as for          *)
(* OptimizedVideoSource.                                                   *)
(***************************************************************************)
WorkerStatus == {"stopped", "starting", "running", "reconnecting", "error"}
QueueSize == 2
MaxWorkerFrames == 3

Frame(pos, epoch) == [pos |-> pos, epoch |-> epoch]

OptimizedCameraWorker_capture_init(rtsp_url) ==
    [ rtsp_url |-> rtsp_url,  \* config.rtsp_url
      _status |-> "stopped",
      _is_running |-> FALSE,
      _stop_event |-> FALSE,
      _cap |-> None,
      _cap_lock |-> Free,
      _display_frame |-> None,
      _detection_queue |-> <<>>,
      _reconnect_interval |-> MIN_RECONNECT_INTERVAL,
      _last_reconnect_time |-> 0,
      _rtsp_fail_count |-> 0,
      _frame_count |-> 0,
      tpc |-> "off",
      ret_to |-> "loop",      \* where _connect was called from: the loop or _reconnect
      frame |-> None,         \* the frame the capture loop has just read
      dpc |-> "off",
      dframe |-> None,        \* the frame variable of the detection loop
      spc |-> "idle" ]

\* start(): nothing without an RTSP URL; else the flags, STARTING, and both threads.
OptimizedCameraWorker_start(self) ==
    IF self._is_running \/ self.rtsp_url = "" THEN self
    ELSE [self EXCEPT !._is_running = TRUE, !._stop_event = FALSE, !._status = "starting",
                      !.tpc = "loop", !.dpc = "d_loop"]

\* The positions at which the capture thread acquires _cap_lock.
WorkerAcquires == {"need", "connect", "read", "rc_release"}

\* _connect(): the old handle is released and VideoCapture is called under the lock;
\* RUNNING, the fail count and the interval are set once the handle is opened.  The
\* caller goes on: the loop sleeps _reconnect_interval after a failure and reads
\* after a success, _reconnect sets the interval from the outcome.
OptimizedCameraWorker_connect(self, available) ==
    CASE self.tpc = "connect" ->
            [self EXCEPT !._cap_lock = Some("capture"), !._cap = None, !.tpc = "connecting"]
      [] self.tpc = "connecting" /\ available ->
            [self EXCEPT !._cap = VideoCapture(TRUE), !._cap_lock = Free, !.tpc = "connected"]
      [] self.tpc = "connecting" /\ ~available /\ self.ret_to = "loop" ->
            [self EXCEPT !._cap = VideoCapture(FALSE), !._cap_lock = Free, !.tpc = "loop"]
      [] self.tpc = "connecting" /\ ~available /\ self.ret_to = "rc" ->
            [self EXCEPT !._cap = VideoCapture(FALSE), !._cap_lock = Free,
                         !._reconnect_interval = Backoff(@), !.tpc = "loop"]
      [] self.tpc = "connected" ->
            [self EXCEPT !._status = "running", !._rtsp_fail_count = 0,
                         !._reconnect_interval = MIN_RECONNECT_INTERVAL,
                         !.tpc = IF self.ret_to = "loop" THEN "read" ELSE "loop"]

\* _reconnect(): nothing when the last attempt is more recent than the interval;
\* else RECONNECTING, the handle is released, 0.3 s of sleep, and _connect().
OptimizedCameraWorker_reconnect(self, too_soon) ==
    CASE self.tpc = "rc" /\ too_soon ->
            [self EXCEPT !.tpc = "loop"]
      [] self.tpc = "rc" /\ ~too_soon ->
            [self EXCEPT !._last_reconnect_time = 1, !._status = "reconnecting",
                         !.tpc = "rc_release"]
      [] self.tpc = "rc_release" ->
            [self EXCEPT !._cap = None, !.tpc = "connect", !.ret_to = "rc"]

\* The third failed read in a row, by return value: RECONNECTING, then _reconnect().
OptimizedCameraWorker_read_failed(self) ==
    IF self._rtsp_fail_count + 1 >= FailLimit
    THEN [self EXCEPT !._cap_lock = Free, !._rtsp_fail_count = FailLimit,
                      !._status = "reconnecting", !.tpc = "rc"]
    ELSE [self EXCEPT !._cap_lock = Free, !._rtsp_fail_count = @ + 1, !.tpc = "loop"]

\* The third failed read in a row, by exception: _reconnect().
OptimizedCameraWorker_read_raised(self) ==
    IF self._rtsp_fail_count + 1 >= FailLimit
    THEN [self EXCEPT !._cap_lock = Free, !._rtsp_fail_count = FailLimit, !.tpc = "rc"]
    ELSE [self EXCEPT !._cap_lock = Free, !._rtsp_fail_count = @ + 1, !.tpc = "loop"]

\* _capture_loop(), one step of the thread.  A read returns a frame, returns no
\* frame, or raises.
OptimizedCameraWorker_capture_loop(self, outcome, epoch) ==
    CASE self.tpc = "loop" ->
            IF self._stop_event \/ ~self._is_running THEN [self EXCEPT !.tpc = "exit"]
            ELSE [self EXCEPT !.tpc = "need"]
      [] self.tpc = "need" ->
            IF ~IsOpened(self._cap) THEN [self EXCEPT !.tpc = "connect", !.ret_to = "loop"]
            ELSE [self EXCEPT !.tpc = "read"]
      [] self.tpc = "read" ->
            IF self._cap = None THEN [self EXCEPT !.tpc = "loop"]
            ELSE [self EXCEPT !._cap_lock = Some("capture"), !.tpc = "reading"]
      [] self.tpc = "reading" /\ outcome = "frame" ->
            [self EXCEPT !._cap_lock = Free,
                         !._frame_count = @ + 1,
                         !._rtsp_fail_count = 0,
                         !._status = "running",
                         !._display_frame = Some(Frame(self._frame_count + 1, epoch)),
                         !.frame = Some(Frame(self._frame_count + 1, epoch)),
                         !.tpc = "q_full"]
      [] self.tpc = "reading" /\ outcome = "none" ->
            OptimizedCameraWorker_read_failed(self)
      [] self.tpc = "reading" /\ outcome = "raise" ->
            OptimizedCameraWorker_read_raised(self)
      [] self.tpc = "q_full" ->
            IF Len(self._detection_queue) >= QueueSize THEN [self EXCEPT !.tpc = "q_get"]
            ELSE [self EXCEPT !.tpc = "q_put"]
      [] self.tpc = "q_get" ->
            IF Len(self._detection_queue) > 0
            THEN [self EXCEPT !._detection_queue = Tail(@), !.tpc = "q_put"]
            ELSE [self EXCEPT !.frame = None, !.tpc = "loop"]
      [] self.tpc = "q_put" ->
            IF Len(self._detection_queue) < QueueSize
            THEN [self EXCEPT !._detection_queue = Append(@, Get(self.frame)),
                              !.frame = None, !.tpc = "loop"]
            ELSE [self EXCEPT !.frame = None, !.tpc = "loop"]

\* The detection loop leaves its drain: no frame, or the frame goes to inference.
OptimizedCameraWorker_drained(self) ==
    IF self.dframe = None THEN [self EXCEPT !.dpc = "d_loop"]
    ELSE [self EXCEPT !.dpc = "d_detect"]

\* _detection_loop(), one step of the thread: the queue is drained to its last
\* frame, which goes to inference.
OptimizedCameraWorker_detection_loop(self) ==
    CASE self.dpc = "d_loop" ->
            IF self._stop_event \/ ~self._is_running THEN [self EXCEPT !.dpc = "exit"]
            ELSE [self EXCEPT !.dframe = None, !.dpc = "d_empty"]
      [] self.dpc = "d_empty" ->
            IF Len(self._detection_queue) = 0 THEN OptimizedCameraWorker_drained(self)
            ELSE [self EXCEPT !.dpc = "d_get"]
      [] self.dpc = "d_get" ->
            IF Len(self._detection_queue) > 0
            THEN [self EXCEPT !.dframe = Some(Head(self._detection_queue)),
                              !._detection_queue = Tail(@), !.dpc = "d_empty"]
            ELSE OptimizedCameraWorker_drained(self)
      [] self.dpc = "d_detect" ->
            [self EXCEPT !.dpc = "d_loop"]

\* stop(), one step of its caller: the flags and STOPPED, the two joins, the handle
\* released under the lock, and the state reset.
OptimizedCameraWorker_stop(self) ==
    CASE self.spc = "idle" ->
            [self EXCEPT !._is_running = FALSE, !._stop_event = TRUE, !._status = "stopped",
                         !.spc = "join_capture"]
      [] self.spc = "join_capture" ->
            [self EXCEPT !.spc = "join_detection"]
      [] self.spc = "join_detection" ->
            [self EXCEPT !.spc = "release"]
      [] self.spc = "release" ->
            [self EXCEPT !._cap = None, !._display_frame = None, !.spc = "done"]

\* get_display_frame(): the frame in the slot, or None.
OptimizedCameraWorker_get_display_frame(self) == self._display_frame

MaxFailsSeen == 3
MaxConnects == 2

InitWcobs ==
    [ connects |-> 0,            \* successful _connect() calls so far
      fails |-> 0,               \* failed _connect() calls since the last successful one
      was_reconnecting |-> FALSE,    \* RECONNECTING was set since the fail count was last 0
      prev_det |-> 0,            \* capture position of the frame detected before last
      last_det |-> 0,            \* capture position of the frame last sent to inference
      opened_after_stop |-> FALSE ]  \* a VideoCapture call started after stop() set the event

IdleCapture ==
    /\ wcap = OptimizedCameraWorker_capture_init("")
    /\ wcobs = InitWcobs

(***************************************************************************)
(* PLCClient.write_bit() (src/plc/plc_client.py) called by two threads on  *)
(* one byte of the PLC.  The threads are the detection thread and the      *)
(* stop() caller of one CameraMonitor, which share the monitor's           *)
(* PLCClient, or the detection threads of two CameraMonitors, each with    *)
(* the PLCClient its own _connect_plc() made.                              *)
(***************************************************************************)
WireBits == 0 .. 2
WireThreads == {"w1", "w2"}
WireClients == {"c1", "c2"}

\* the PLCClient a thread writes through
ClientOf(w, t) == IF w.shared \/ t = "w1" THEN "c1" ELSE "c2"

\* the alarm bits a thread writes: the person and coal bit of camera 1 when the
\* threads belong to one monitor, the person bits of cameras 1 and 2 when they
\* belong to two
BitsOf(w, t) == IF w.shared THEN {0, 1} ELSE IF t = "w1" THEN {0} ELSE {2}

IdleWireThread == [pc |-> "idle", bit_offset |-> 0, value |-> FALSE, data |-> {}]

InitWb(shared, byte) ==
    [
      shared |-> shared,   \* the two threads use one PLCClient
      byte |-> byte,       \* the bits of the byte that are 1 in the PLC
      _lock |-> [c \in WireClients |-> Free],
      th |-> [t \in WireThreads |-> IdleWireThread]
    ]

InitWbobs(byte) ==
    [
      calls |-> 0,
      start |-> byte,                        \* the byte before the first write
      last |-> [b \in WireBits |-> None],    \* the value of the last write_bit() that returned True, per bit
      waited |-> FALSE                       \* a thread found the lock of its client taken
    ]

IdleWire ==
    /\ wb = InitWb(TRUE, {})
    /\ wbobs = InitWbobs({})

\* with self._lock: the lock of the client can be taken
PLCClient_lock_unguarded(w, c) == TRUE

PLCClient_lock_free(w, c) == w._lock[c] = Free

\* write_bit() up to the with statement
PLCClient_write_bit_enter(w, t, bit_offset, value) ==
    [w EXCEPT !.th[t] = [pc |-> "lock", bit_offset |-> bit_offset, value |-> value, data |-> {}]]

\* with self._lock
PLCClient_write_bit_lock(w, t) ==
    [w EXCEPT !._lock[ClientOf(w, t)] = Some(t), !.th[t].pc = "read"]

\* data = self._client.db_read(db_number, byte_offset, 1)
PLCClient_write_bit_read(w, t) ==
    [w EXCEPT !.th[t].data = w.byte, !.th[t].pc = "write"]

\* set_bool(data, 0, bit_offset, value); db_write(db_number, byte_offset, data);
\* the lock is released on the way out, also when db_write raised
PLCClient_write_bit_write(w, t, ok) ==
    [w EXCEPT !.byte = IF ok THEN set_bool(w.th[t].data, w.th[t].bit_offset, w.th[t].value) ELSE @,
              !._lock[ClientOf(w, t)] = Free,
              !.th[t] = IdleWireThread]

(***************************************************************************)
(* PLCClient.reconnect() and health_check() (src/plc/plc_client.py) with   *)
(* two callers: the detection thread and the stop() caller of a            *)
(* CameraMonitor, both inside AlarmManager._send_to_plc().                 *)
(* _reconnect_count is read and written outside self._lock.                *)
(***************************************************************************)
LinkThreads == {"t1", "t2"}

IdleLinkThread == [pc |-> "idle", count |-> 0]

InitLk(max_reconnect_attempts) ==
    [
      plc |-> PLCClient_init(max_reconnect_attempts),
      th |-> [t \in LinkThreads |-> IdleLinkThread]
    ]

InitLkobs ==
    [
      calls |-> 0,
      failed |-> 0        \* connection attempts of reconnect() that failed since the last successful connect or reset
    ]

IdleLink ==
    /\ lk = InitLk(0)
    /\ lkobs = InitLkobs

\* reconnect(): if self._reconnect_count >= self.max_reconnect_attempts: return False
PLCClient_reconnect_exhausted(self) == self._reconnect_count >= self.max_reconnect_attempts

\* reconnect(): self._reconnect_count += 1, the attribute read
PLCClient_reconnect_load(l, t) ==
    [l EXCEPT !.th[t] = [pc |-> "store", count |-> l.plc._reconnect_count]]

\* reconnect(): self._reconnect_count += 1, the attribute written; RECONNECTING
PLCClient_reconnect_store(l, t) ==
    [l EXCEPT !.plc._reconnect_count = l.th[t].count + 1,
              !.plc._state = "reconnecting",
              !.th[t] = [pc |-> "close", count |-> 0]]

\* reconnect(): the old client is dropped under the lock; then the sleep
PLCClient_reconnect_close(l, t) ==
    [l EXCEPT !.plc._client = FALSE, !.th[t].pc = "connect"]

\* reconnect(): return self.connect()
PLCClient_reconnect_connect(l, t, ok) ==
    [l EXCEPT !.plc = PLCClient_connect(l.plc, ok).self, !.th[t] = IdleLinkThread]

\* health_check() after a failed check_connection(): reconnect() when the
\* counter is below the limit, else the counter is cleared at twice the limit
PLCClient_health_check_failed(l, t) ==
    IF l.plc._reconnect_count < l.plc.max_reconnect_attempts
    THEN [l EXCEPT !.th[t].pc = "reconnect"]
    ELSE [l EXCEPT !.plc._reconnect_count = IF @ >= l.plc.max_reconnect_attempts * 2 THEN 0 ELSE @,
                   !.th[t] = IdleLinkThread]

\* reset_reconnect_counter()
PLCClient_reset_reconnect_counter(self) == [self EXCEPT !._reconnect_count = 0]

(***************************************************************************)
(* The ROI mask cache of PersonDetector / CoalDetector (src/detection):    *)
(* detect() builds the mask when there is none or the frame size changed,  *)
(* update_roi() replaces the polygon and drops the mask.  Neither takes a  *)
(* lock.  Frames are one row of pixels; the camera's frames are as wide as *)
(* the reference resolution or twice as wide.                              *)
(***************************************************************************)
reference_resolution == 2

FrameWidths == {reference_resolution, 2 * reference_resolution}

\* polygons in reference coordinates, as vertex lists
Polygons == {<<a, b>> : a, b \in 0 .. (reference_resolution - 1)}

\* ROIConfig.scale_roi(): int(x * target_width / ref_width) for every vertex
ROIConfig_scale_roi(roi_points, target_width) ==
    [i \in DOMAIN roi_points |-> (roi_points[i] * target_width) \div reference_resolution]

IdleRoiDetect == [pc |-> "idle", w |-> 0, mask |-> {}]

InitRoi(roi_points) ==
    [
      roi_points |-> roi_points,
      _roi_mask |-> None,
      _frame_size |-> None,
      det |-> IdleRoiDetect,                     \* the thread in detect()
      upd |-> [pc |-> "idle"]    \* the thread in update_roi()
    ]

InitRobs(roi_points) ==
    [
      frames |-> 0,
      updates |-> 0,
      configured |-> roi_points,   \* the polygon the detector was constructed with
      fresh |-> FALSE,    \* no update_roi() was running when the current detect() started, and none started since
      used |-> None,      \* the mask the last detect() checked the detections against
      w |-> 0,            \* the width of that frame
      checked |-> FALSE   \* that detect() started after the last update_roi() had returned
    ]

IdleRoi ==
    /\ cache = InitRoi(<<>>)
    /\ robs = InitRobs(<<>>)

\* detect(): if self._roi_mask is None or self._frame_size != (w, h)
BaseDetector_mask_stale(self, w) == self._roi_mask = None \/ self._frame_size # Some(w)

\* detect(): create_mask_from_polygon(self.roi_points, w, h) evaluated
BaseDetector_build_mask(self) ==
    [self EXCEPT !.det.mask = create_mask_from_polygon(self.roi_points, self.det.w), !.det.pc = "store"]

\* detect(): self._roi_mask = <the mask>; self._frame_size = (w, h)
BaseDetector_store_mask(self) ==
    [self EXCEPT !._roi_mask = Some(self.det.mask), !._frame_size = Some(self.det.w), !.det.pc = "use"]

\* update_roi(): self.roi_points = roi_points
BaseDetector_update_roi_points(self, roi_points) ==
    [self EXCEPT !.roi_points = roi_points, !.upd.pc = "clear"]

\* update_roi(): self._roi_mask = None
BaseDetector_update_roi_clear(self) ==
    [self EXCEPT !._roi_mask = None, !.upd.pc = "idle"]

(***************************************************************************)
(* The threads of an OptimizedCameraWorker (src/core/optimized_worker.py)  *)
(* over a sequence of start() and stop() calls.  Every start() that goes   *)
(* through makes a new capture and a new detection thread; a thread is     *)
(* either at the test of its while loop or inside an iteration (a read, a  *)
(* connection attempt, a sleep, an inference), or it has ended.            *)
(***************************************************************************)
TaskKinds == {"capture", "detection"}
TaskIds == 1 .. MaxStarts

OptimizedCameraWorker_tasks_init(rtsp_url) ==
    [
      rtsp_url |-> rtsp_url,
      _is_running |-> FALSE,
      _stop_event |-> FALSE,
      _thread |-> [k \in TaskKinds |-> 0],   \* self._capture_thread / self._detection_thread: 0 is None
      th |-> [k \in TaskKinds |-> [i \in TaskIds |-> [pc |-> "none", passed |-> 0]]],
      spc |-> "idle"     \* the caller of start() and stop()
    ]

InitTkobs ==
    [
      starts |-> 0,        \* start() calls that started threads
      stops |-> 0,         \* stop() calls
      timed_out |-> FALSE  \* a join in stop() returned with its thread alive
    ]

IdleTasks ==
    /\ tk = OptimizedCameraWorker_tasks_init("")
    /\ tkobs = InitTkobs

\* start() refuses to start threads
OptimizedCameraWorker_start_refused(self) == self._is_running \/ self.rtsp_url = ""

\* start() past its tests: the flags, and a new thread of each kind, numbered n
OptimizedCameraWorker_start_tasks(self, n) ==
    [self EXCEPT !._is_running = TRUE, !._stop_event = FALSE,
                 !._thread = [k \in TaskKinds |-> n],
                 !.th = [k \in TaskKinds |-> [@[k] EXCEPT ![n] = [pc |-> "test", passed |-> 0]]]]

\* while not self._stop_event.is_set() and self._is_running
OptimizedCameraWorker_loop_test(self) == ~self._stop_event /\ self._is_running

\* stop(): self._is_running = False; self._stop_event.set()
OptimizedCameraWorker_stop_flags(self) ==
    [self EXCEPT !._is_running = FALSE, !._stop_event = TRUE, !.spc = "join_capture"]

\* the thread a join of stop() waits for is alive
OptimizedCameraWorker_thread_alive(self, k) ==
    self._thread[k] # 0 /\ self.th[k][self._thread[k]].pc \in {"test", "body"}

IdleMore ==
    /\ IdleWire
    /\ IdleLink
    /\ IdleRoi
    /\ IdleTasks

(***************************************************************************)
(* AlertLogger (src/alerting/alert_logger.py) and ImageSaver               *)
(* (src/alerting/image_saver.py) of one camera: the throttle of each, the  *)
(* threads that call them and the clock they read.  Times are clock ticks. *)
(***************************************************************************)
throttle_interval == 2

Components == {"logger", "saver"}
ThrottleThreads == {"t1", "t2"}

\* The alert types log_person_alert / log_coal_alert and save_person_alert /
\* save_coal_alert use.
AlertTypesOf(comp) ==
    IF comp = "logger" THEN {"person_detection", "coal_blockage"}
    ELSE {"person_alert", "coal_alert"}

ThrottleKeys == AlertTypesOf("logger") \cup AlertTypesOf("saver")

\* An absent key of the dict reads as 0.
AlertLogger_init == [_lock |-> Free, _last_log_time |-> [a \in AlertTypesOf("logger") |-> 0]]

ImageSaver_init == [_lock |-> Free, _last_save_time |-> [a \in AlertTypesOf("saver") |-> 0]]

\* _should_log, the block under the lock, with the time read before it.
AlertLogger_should_log_always(self, alert_type, current_time) ==
    [self |-> self, ret |-> TRUE]

AlertLogger_should_log(self, alert_type, current_time) ==
    IF current_time - self._last_log_time[alert_type] >= throttle_interval
    THEN [self |-> [self EXCEPT !._last_log_time[alert_type] = current_time], ret |-> TRUE]
    ELSE [self |-> self, ret |-> FALSE]

\* _should_save, the block under the lock, with the time read before it.
ImageSaver_should_save(self, alert_type, current_time) ==
    IF current_time - self._last_save_time[alert_type] >= throttle_interval
    THEN [self |-> [self EXCEPT !._last_save_time[alert_type] = current_time], ret |-> TRUE]
    ELSE [self |-> self, ret |-> FALSE]

\* The last accepted time a component holds for an alert type.
LastTime(t, comp, alert_type) ==
    IF comp = "logger" THEN t.logger._last_log_time[alert_type]
    ELSE t.saver._last_save_time[alert_type]

IdleThrottleThread ==
    [pc |-> "idle", comp |-> "logger", alert_type |-> "person_detection",
     force |-> FALSE, current_time |-> 0]

\* time.time() is seconds since 1970: the clock starts beyond one interval.  A
\* thread's current_time is the value it read, 0 while it holds none.
InitThr ==
    [ logger |-> AlertLogger_init,
      saver |-> ImageSaver_init,
      th |-> [t \in ThrottleThreads |-> IdleThrottleThread],
      now |-> throttle_interval ]

InitTobs ==
    [ calls |-> 0,      \* log and save calls made
      accepted |-> [a \in ThrottleKeys |-> <<>>],   \* times of the non-forced calls let through
      rejected |-> FALSE,   \* a non-forced call was turned down
      stale |-> FALSE,      \* a call was decided with a time older than the last accepted one
      forced |-> FALSE  \* a forced entry or snapshot was written
    ]

IdleThrottle ==
    /\ thr = InitThr
    /\ tobs = InitTobs

IdleStream ==
    /\ IdleBuffer
    /\ IdleSource
    /\ IdleCapture
    /\ IdleThrottle
    /\ IdleMore

(***************************************************************************)
(* Predictor outputs fed to the detectors.  What a detector does with a    *)
(* result depends only on FrameView of it, so the actions draw one         *)
(* representative result per view instead of every element of YoloResults. *)
(***************************************************************************)
HasBoxes(y) == ~y.none /\ ~y.boxes_none
HasMasks(y) == ~y.none /\ y.masks

\* Ground truth of a frame: a person detection overlaps the person zone.
PersonInZone(y) ==
    /\ HasBoxes(y)
    /\ \E i \in DOMAIN y.boxes :
           /\ y.boxes[i].cls = person_class_id
           /\ y.boxes[i].region \cap create_mask_from_polygon(roi_person, FrameWidth) # {}

\* Ground truth of a frame: pixels of the coal zone covered by a coal mask.
CoalPixelsInZone(y) ==
    IF HasBoxes(y) /\ HasMasks(y)
    THEN {x \in create_mask_from_polygon(roi_coal, FrameWidth) :
              \E i \in DOMAIN y.boxes :
                  y.boxes[i].cls = coal_class_id /\ x \in y.boxes[i].region}
    ELSE {}

CoalZoneArea == Cardinality(create_mask_from_polygon(roi_coal, FrameWidth))

\* Ground truth of a frame: the coal ratio reaches the ratio threshold.
CoalOverThreshold(y) ==
    /\ CoalZoneArea > 0
    /\ HasMasks(y)
    /\ 100 * Cardinality(CoalPixelsInZone(y)) >= coal_ratio_threshold * CoalZoneArea

FrameView(y) ==
    [ none |-> y.none,
      boxes |-> HasBoxes(y),
      masks |-> HasMasks(y),
      persons |-> IF HasBoxes(y)
                  THEN Cardinality({i \in DOMAIN y.boxes : y.boxes[i].cls = person_class_id})
                  ELSE 0,
      in_zone |-> PersonInZone(y),
      coal_area |-> Cardinality(CoalPixelsInZone(y)) ]

FrameCases ==
    {CHOOSE y \in YoloResults : FrameView(y) = v : v \in {FrameView(y) : y \in YoloResults}}

\* "The predictor returned nothing" as each detector sees it.
PersonNoDetections(y) == y.none \/ y.boxes_none \/ Len(y.boxes) = 0
CoalNoDetections(y) == y.none \/ ~y.masks \/ y.boxes_none \/ Len(y.boxes) = 0

(***************************************************************************)
(* Observation of one detector over its detect() calls.                    *)
(***************************************************************************)
InitHist ==
    [ frames |-> 0,          \* detect() calls so far
      arm_edges |-> 0,       \* results with should_alarm
      disarms |-> 0,         \* calls that took alarm_state from TRUE to FALSE
      on_run |-> 0,          \* condition-meeting frames in a row, ending at the last frame
      none_run |-> 0,        \* no-detection frames in a row, ending at the last frame
      off_before |-> 0,      \* off-streak counter when that run of no-detection frames began
      should_alarm |-> FALSE \* should_alarm of the last result
    ]

Observe(h, before_alarm, before_off, after_alarm, should_alarm, meets, nothing) ==
    [ frames |-> h.frames + 1,
      arm_edges |-> h.arm_edges + (IF should_alarm THEN 1 ELSE 0),
      disarms |-> h.disarms + (IF before_alarm /\ ~after_alarm THEN 1 ELSE 0),
      on_run |-> IF meets THEN h.on_run + 1 ELSE 0,
      none_run |-> IF nothing THEN h.none_run + 1 ELSE 0,
      off_before |-> IF nothing /\ h.none_run > 0 THEN h.off_before ELSE before_off,
      should_alarm |-> should_alarm ]

\* Observation of a CoalDetector that is switched off and on between its frames.
InitCobs ==
    [ spc |-> "idle",          \* the caller of set_enabled(): idle, or before its reset()
      called |-> FALSE,        \* detect() has been called
      ratio |-> ZeroRatio,     \* coal_ratio of the last result
      truth |-> ZeroRatio,     \* coal ratio of the frame of the last result (0 when disabled)
      off_run |-> 0,           \* detect() calls in a row made while disabled
      armed_off |-> FALSE,     \* a detect() call made while disabled has armed
      stalled |-> FALSE,       \* a detect() call made while disabled left the off-streak alone
      decayed |-> FALSE,       \* a detect() call made while disabled has disarmed
      is_blocked |-> FALSE,    \* is_blocked of the last result
      reached |-> FALSE,       \* the last frame took the on-streak counter to its threshold
      unblocked |-> 0,         \* results in a row without is_blocked, ending at the last one
      last_gap |-> 0,          \* results without is_blocked before the last one with it
      blocks |-> 0,            \* results with is_blocked while already armed (up to 2)
      held |-> FALSE           \* a frame over the threshold, while armed, was not is_blocked
    ]

(***************************************************************************)
(* SpecDetector: a PersonDetector and a CoalDetector, each fed an          *)
(* arbitrary sequence of detect() calls.  The two objects share no state,  *)
(* so a behaviour drives one of them (obs.driven, chosen initially) and    *)
(* leaves the other as constructed.                                        *)
(***************************************************************************)
InitDetector ==
    /\ person = PersonDetector_init(roi_person, person_consecutive_threshold,
                                    person_no_detection_threshold)
    /\ coal = CoalDetector_init(roi_coal, coal_ratio_threshold, coal_consecutive_threshold,
                                coal_no_blockage_threshold, TRUE)
    /\ \E d \in {"person", "coal"} : obs = [driven |-> d, p |-> InitHist, c |-> InitHist]
    /\ cobs = InitCobs
    /\ IdlePlc
    /\ IdleWorker
    /\ IdleMonitor
    /\ IdleInference
    /\ IdleStream

PersonDetect(y) ==
    /\ obs.driven = "person"
    /\ obs.p.frames < MaxFrames
    /\ LET r == PersonDetector_detect(person, y) IN
       /\ person' = r.self
       /\ obs' = [obs EXCEPT !.p = Observe(@, person._alarm_state, person._no_detection_count,
                                           r.self._alarm_state, r.result.should_alarm,
                                           PersonInZone(y), PersonNoDetections(y))]
    /\ UNCHANGED <<coal, cobs, plc_vars, worker_vars, monitor_vars, inference_vars, stream_vars>>

CoalDetect(y) ==
    /\ obs.driven = "coal"
    /\ obs.c.frames < MaxFrames
    /\ LET r == CoalDetector_detect(coal, y) IN
       /\ coal' = r.self
       /\ obs' = [obs EXCEPT !.c = Observe(@, coal._alarm_state, coal._no_blockage_count,
                                           r.self._alarm_state, r.result.should_alarm,
                                           CoalOverThreshold(y), CoalNoDetections(y))]
    /\ UNCHANGED <<person, cobs, plc_vars, worker_vars, monitor_vars, inference_vars, stream_vars>>

NextDetector ==
    \/ \E y \in FrameCases : PersonDetect(y)
    \/ \E y \in FrameCases : CoalDetect(y)

SpecDetector == InitDetector /\ [][NextDetector]_vars

IdleDetector ==
    /\ person = PersonDetector_init(roi_person, person_consecutive_threshold,
                                    person_no_detection_threshold)
    /\ coal = CoalDetector_init(roi_coal, coal_ratio_threshold, coal_consecutive_threshold,
                                coal_no_blockage_threshold, TRUE)
    /\ obs = [driven |-> "none", p |-> InitHist, c |-> InitHist]
    /\ cobs = InitCobs

(***************************************************************************)
(* SpecSwitch: a CoalDetector, constructed enabled or disabled, whose      *)
(* detect() calls run beside a caller of set_enabled().  set_enabled()     *)
(* takes no lock: a detect() call can run between its assignment of        *)
(* self.enabled and its reset().                                           *)
(***************************************************************************)
MaxOffStreak == 7

InitSwitch ==
    /\ person = PersonDetector_init(roi_person, person_consecutive_threshold,
                                    person_no_detection_threshold)
    /\ \E enabled \in BOOLEAN :
           coal = CoalDetector_init(roi_coal, coal_ratio_threshold, coal_consecutive_threshold,
                                    coal_no_blockage_threshold, enabled)
    /\ obs = [driven |-> "none", p |-> InitHist, c |-> InitHist]
    /\ cobs = InitCobs
    /\ IdlePlc
    /\ IdleWorker
    /\ IdleMonitor
    /\ IdleInference
    /\ IdleStream

switch_others == <<person, obs, plc_vars, worker_vars, monitor_vars, inference_vars, stream_vars>>

\* The coal ratio of a frame, from the frame alone.
CoalRatioOf(y) == Ratio(Cardinality(CoalPixelsInZone(y)), CoalZoneArea)

ObserveSwitch(o, before, r, y) ==
    [o EXCEPT
        !.called = TRUE,
        !.ratio = r.result.coal_ratio,
        !.truth = IF before.enabled THEN CoalRatioOf(y) ELSE ZeroRatio,
        !.off_run = IF before.enabled THEN 0
                    ELSE IF @ < before.no_blockage_threshold THEN @ + 1 ELSE @,
        !.armed_off = @ \/ (~before.enabled /\ (r.result.should_alarm
                                                  \/ (~before._alarm_state /\ r.self._alarm_state))),
        !.stalled = @ \/ (~before.enabled
                             /\ r.self._no_blockage_count # before._no_blockage_count + 1),
        !.decayed = @ \/ (~before.enabled /\ before._alarm_state /\ ~r.self._alarm_state),
        !.is_blocked = r.result.is_blocked,
        !.reached = /\ before.enabled /\ CoalOverThreshold(y)
                    /\ before._consecutive_count + 1 >= before.consecutive_threshold,
        !.unblocked = IF r.result.is_blocked THEN 0
                      ELSE IF @ < before.consecutive_threshold THEN @ + 1 ELSE @,
        !.last_gap = IF r.result.is_blocked THEN o.unblocked ELSE @,
        !.blocks = IF r.result.is_blocked /\ before._alarm_state /\ @ < 2 THEN @ + 1 ELSE @,
        !.held = @ \/ (before.enabled /\ CoalOverThreshold(y) /\ before._alarm_state
                          /\ ~r.result.is_blocked)]

\* detect(frame, yolo_result)
SwitchDetect(y) ==
    /\ coal._no_blockage_count < MaxOffStreak
    /\ LET r == CoalDetector_detect(coal, y) IN
       /\ coal' = r.self
       /\ cobs' = ObserveSwitch(cobs, coal, r, y)
    /\ UNCHANGED switch_others

\* set_enabled(enabled): self.enabled = enabled
SwitchSetEnabled(enabled) ==
    /\ cobs.spc = "idle"
    /\ coal' = CoalDetector_set_enabled(coal, enabled)
    /\ cobs' = [cobs EXCEPT !.spc = IF enabled THEN "idle" ELSE "reset", !.off_run = 0]
    /\ UNCHANGED switch_others

\* set_enabled(False): self.reset()
SwitchReset ==
    /\ cobs.spc = "reset"
    /\ coal' = CoalDetector_reset(coal)
    /\ cobs' = [cobs EXCEPT !.spc = "idle"]
    /\ UNCHANGED switch_others

NextSwitch ==
    \/ \E y \in FrameCases : SwitchDetect(y)
    \/ \E enabled \in BOOLEAN : SwitchSetEnabled(enabled)
    \/ SwitchReset

SpecSwitch == InitSwitch /\ [][NextSwitch]_vars

(***************************************************************************)
(* SpecAlarm: an AlarmManager on a PLCClient, as CameraMonitor._connect_plc *)
(* builds them, under an arbitrary sequence of set_alarm / turn_off_all    *)
(* calls and transport outcomes.                                           *)
(***************************************************************************)
InitAlarm ==
    /\ IdleDetector
    /\ IdleWorker
    /\ IdleMonitor
    /\ IdleInference
    /\ IdleStream
    /\ \E ok \in BOOLEAN : plc = PLCClient_connect(PLCClient_init(reconnect_attempts), ok).self
    /\ plc_mem = [a \in ByteAddrs |-> {}]
    /\ alarm = AlarmManager_init(AlarmConfig(db_number, person_alarm_byte, person_alarm_bit),
                                 AlarmConfig(db_number, coal_alarm_byte, coal_alarm_bit))
    /\ alog = InitAlog

\* The effect of a call whose result is r, and what the observer records of it.
AlarmCallDone(r, h) ==
    /\ alarm' = r.self
    /\ plc' = r.client
    /\ plc_mem' = r.mem
    /\ alog' = h
    /\ UNCHANGED <<detector_vars, worker_vars, monitor_vars, inference_vars, stream_vars>>

SetAlarmCall(kind, state, o, r) ==
    AlarmCallDone(r, ObserveCall(alog, alarm, plc, plc_mem, kind, state, o, r))

SetAlarm(kind, state, o) ==
    /\ alog.calls < MaxCalls
    /\ SetAlarmCall(kind, state, o, AlarmManager_set_alarm(alarm, plc, plc_mem, kind, state, o))

ObserveIfCalled(h, am, client, mem, kind, o, r) ==
    IF r.called THEN ObserveCall(h, am, client, mem, kind, OFF, o, r) ELSE h

ObserveSweep(h) == [h EXCEPT !.swept = TRUE]

TurnOffAllCall(o1, o2, r) ==
    AlarmCallDone(r, ObserveSweep(ObserveIfCalled(
                         ObserveIfCalled(alog, alarm, plc, plc_mem, "person", o1, r.first),
                         r.first.self, r.first.client, r.first.mem, "coal", o2, r.second)))

TurnOffAll(o1, o2) ==
    /\ alog.calls + 1 < MaxCalls
    /\ TurnOffAllCall(o1, o2, AlarmManager_turn_off_all(alarm, plc, plc_mem, o1, o2))

NextAlarm ==
    \/ \E kind \in AlarmType, state \in {ON, OFF}, o \in OutcomesFor(plc) :
          SetAlarm(kind, state, o)
    \/ \E o1 \in (IF alarm._alarm_states["person"] = ON THEN OutcomesFor(plc) ELSE {AllGood}),
          o2 \in (IF alarm._alarm_states["coal"] = ON THEN Outcomes ELSE {AllGood}) :
          TurnOffAll(o1, o2)

SpecAlarm == InitAlarm /\ [][NextAlarm]_vars

(***************************************************************************)
(* SpecPreset: the same AlarmManager built on a PLC whose alarm bits hold   *)
(* whatever an earlier run left in them.                                   *)
(***************************************************************************)
PresetMem(bits) == [a \in ByteAddrs |-> IF a = <<db_number, person_alarm_byte>> THEN bits ELSE {}]

InitPreset ==
    /\ IdleDetector
    /\ IdleWorker
    /\ IdleMonitor
    /\ IdleInference
    /\ IdleStream
    /\ \E ok \in BOOLEAN : plc = PLCClient_connect(PLCClient_init(reconnect_attempts), ok).self
    /\ alarm = AlarmManager_init(AlarmConfig(db_number, person_alarm_byte, person_alarm_bit),
                                 AlarmConfig(db_number, coal_alarm_byte, coal_alarm_bit))
    /\ \E bits \in SUBSET {person_alarm_bit, coal_alarm_bit} :
           /\ plc_mem = PresetMem(bits)
           /\ alog = [InitAlog EXCEPT !.preset = [person |-> person_alarm_bit \in bits,
                                                  coal |-> coal_alarm_bit \in bits]]

PresetSetAlarm(kind, state, o) ==
    /\ alog.calls < MaxPresetCalls
    /\ SetAlarmCall(kind, state, o, AlarmManager_set_alarm(alarm, plc, plc_mem, kind, state, o))

PresetTurnOffAll(o1, o2) ==
    /\ alog.calls + 1 < MaxPresetCalls
    /\ TurnOffAllCall(o1, o2, AlarmManager_turn_off_all(alarm, plc, plc_mem, o1, o2))

NextPreset ==
    \/ \E kind \in AlarmType, state \in {ON, OFF}, o \in OutcomesFor(plc) :
          PresetSetAlarm(kind, state, o)
    \/ \E o1 \in (IF alarm._alarm_states["person"] = ON THEN OutcomesFor(plc) ELSE {AllGood}),
          o2 \in (IF alarm._alarm_states["coal"] = ON THEN Outcomes ELSE {AllGood}) :
          PresetTurnOffAll(o1, o2)

SpecPreset == InitPreset /\ [][NextPreset]_vars

(***************************************************************************)
(* SpecWorker: one OptimizedCameraWorker whose detection loop processes an *)
(* arbitrary sequence of inference results.                                *)
(***************************************************************************)
InitWorker ==
    /\ IdleDetector
    /\ IdlePlc
    /\ IdleWorker
    /\ IdleMonitor
    /\ IdleInference
    /\ IdleStream

CountAlerts(alerts, is_active) ==
    Cardinality({i \in DOMAIN alerts : alerts[i].is_active = is_active})

\* One iteration of _detection_loop that got a frame: inference, then
\* _detect_coal_blockage on its result.
DetectionCycleDone(r, nomask) ==
    /\ worker' = r.self
    /\ wobs' = [ cycles |-> wobs.cycles + 1,
                 on_alerts |-> wobs.on_alerts + CountAlerts(r.alerts, TRUE),
                 off_alerts |-> wobs.off_alerts + CountAlerts(r.alerts, FALSE),
                 nomask_run |-> IF nomask THEN wobs.nomask_run + 1 ELSE 0,
                 off_before |-> IF nomask /\ wobs.nomask_run > 0
                                THEN wobs.off_before ELSE worker._coal_no_blockage_count,
                 active_before |-> IF nomask /\ wobs.nomask_run > 0
                                   THEN wobs.active_before ELSE worker.coal_alarm_active ]
    /\ UNCHANGED <<detector_vars, plc_vars, monitor_vars, inference_vars, stream_vars>>

DetectionCycle(y) ==
    /\ wobs.cycles < MaxCycles
    /\ DetectionCycleDone(OptimizedCameraWorker_detect_coal_blockage(worker, FrameWidth, y),
                          y.none \/ ~y.masks)

NextWorker == \E y \in FrameCases : DetectionCycle(y)

SpecWorker == InitWorker /\ [][NextWorker]_vars

(***************************************************************************)
(* SpecMonitor.  The detection thread takes a frame, runs the predictor    *)
(* and both detectors, then the two alarm handlers; the stopping thread    *)
(* runs stop() statement by statement.  Calls into the alarm manager are   *)
(* the units of interleaving.                                              *)
(***************************************************************************)
\* One representative predictor output per combination of the two conditions the
\* alarm logic tests: a person in the zone, coal over the ratio threshold.
MonitorView(y) == <<PersonInZone(y), CoalOverThreshold(y)>>
MonitorFrames ==
    {CHOOSE y \in FrameCases : MonitorView(y) = v : v \in {MonitorView(y) : y \in FrameCases}}

InitMonitor ==
    /\ IdleDetector
    /\ IdlePlc
    /\ IdleWorker
    /\ IdleInference
    /\ IdleStream
    /\ \E enabled \in BOOLEAN, t \in 1 .. MaxThreshold :
           mon = CameraMonitor_init(MonitorConfig(enabled, t, t))
    /\ mobs = InitMobs
    /\ life = InitLife

\* start(): _init_components, _connect_plc when the PLC is enabled, video start,
\* thread start.  A video source that does not open ends in ERROR after _cleanup.
Start(plc_ok, video_ok) ==
    /\ mon._state = "stopped" /\ ~mon.started
    /\ person' = PersonDetector_init(roi_person, mon.config.person_consecutive_threshold,
                                     mon.config.person_no_detection_threshold)
    /\ coal' = CoalDetector_init(roi_coal, coal_ratio_threshold,
                                 mon.config.coal_consecutive_threshold,
                                 mon.config.coal_no_blockage_threshold, TRUE)
    /\ LET c == PLCClient_connect(PLCClient_init(reconnect_attempts), plc_ok)
           m1 == [mon EXCEPT !.started = TRUE,
                             !._person_detector = TRUE, !._coal_detector = TRUE,
                             !._plc_client = mon.config.plc_enabled,
                             !._alarm_manager = mon.config.plc_enabled]
       IN
       /\ plc' = IF ~mon.config.plc_enabled THEN plc
                 ELSE IF video_ok THEN c.self ELSE PLCClient_disconnect(c.self)
       /\ mon' = IF video_ok
                 THEN [m1 EXCEPT !._state = "running", !._stop_event = FALSE, !.dpc = "loop"]
                 ELSE [CameraMonitor_cleanup(m1) EXCEPT !._state = "error"]
       /\ mobs' = [mobs EXCEPT !.ok = mon.config.plc_enabled /\ plc_ok /\ video_ok]
    /\ UNCHANGED <<obs, cobs, plc_mem, alarm, alog, worker_vars, life, inference_vars, stream_vars>>

\* Top of _detection_loop: leave when the stop event is set.
DetectExit ==
    /\ mon.dpc = "loop"
    /\ mon._stop_event
    /\ mon' = [mon EXCEPT !.dpc = "exit"]
    /\ UNCHANGED <<detector_vars, plc_vars, worker_vars, mobs, life, inference_vars, stream_vars>>

\* _process_frame up to the handlers: predict, then both detect() calls.  When
\* predict() raises, or with the detectors cleared by _cleanup, the frame is dropped.
DetectFrameDone(p, c, raises) ==
    /\ person' = p.self
    /\ coal' = c.self
    /\ mon' = [mon EXCEPT !.dpc = "person",
                          !.person_result = p.result.should_alarm,
                          !.coal_result = c.result.should_alarm]
    /\ mobs' = [mobs EXCEPT
           !.frames = @ + 1,
           !.raised = @ + (IF raises THEN 1 ELSE 0),
           !.recovered = @ \/ (~raises /\ mobs.raised > 0),
           !.arm_edges["person"] = @ + (IF p.result.should_alarm THEN 1 ELSE 0),
           !.arm_edges["coal"] = @ + (IF c.result.should_alarm THEN 1 ELSE 0),
           !.disarms["person"] =
               @ + (IF person._alarm_state /\ ~p.self._alarm_state THEN 1 ELSE 0),
           !.disarms["coal"] =
               @ + (IF coal._alarm_state /\ ~c.self._alarm_state THEN 1 ELSE 0),
           !.failed_on["person"] = @ /\ p.self._alarm_state,
           !.failed_on["coal"] = @ /\ c.self._alarm_state,
           !.after_fail = @ \/ (mobs.failed_on["person"] /\ p.self._alarm_state)]

DetectFrame(y, raises) ==
    /\ mon.dpc = "loop"
    /\ ~mon._stop_event
    /\ mobs.frames < MaxMonFrames
    /\ IF CameraMonitor_process_frame_drops(mon, raises)
       THEN /\ mobs' = [mobs EXCEPT !.frames = @ + 1,
                                    !.raised = @ + (IF raises THEN 1 ELSE 0)]
            /\ UNCHANGED <<person, coal, mon>>
       ELSE DetectFrameDone(PersonDetector_detect(person, y), CoalDetector_detect(coal, y),
                            raises)
    /\ UNCHANGED <<obs, cobs, plc_vars, worker_vars, life, inference_vars, stream_vars>>

\* A set_alarm call made by the monitor, whose result is r, and what the observer
\* records of it.
MonitorSetAlarmDone(kind, state, o, r) ==
    /\ alarm' = r.self
    /\ plc' = r.client
    /\ plc_mem' = r.mem
    /\ mobs' = [mobs EXCEPT
           !.ok = @ /\ (r.sent => (r.ret /\ r.calls = 1 /\ r.reconnects = 0)),
           !.sent[kind][OnOff(state)] = @ + (IF r.sent THEN 1 ELSE 0),
           !.faults = @ + (IF o = AllGood THEN 0 ELSE 1),
           !.failed_on[kind] = IF state = ON THEN r.sent /\ ~r.ret ELSE @,
           !.retried = @ \/ (state = ON /\ mobs.failed_on[kind])]

MonitorSetAlarm(kind, state, o) ==
    MonitorSetAlarmDone(kind, state, o,
                        AlarmManager_set_alarm(alarm, plc, plc_mem, kind, state, o))

\* The transport outcomes a handler's request is tried under; at most MaxFaults sends
\* of a behaviour meet a failing operation.
NeedsLink(req) ==
    IF req \in {"on", "off"}
    THEN {o \in OutcomesFor(plc) : o = AllGood \/ mobs.faults < MaxFaults}
    ELSE {AllGood}

\* A handler's request req carried out; next is where the detection thread goes on.
HandleRequest(kind, req, o, next) ==
    /\ o \in NeedsLink(req)
    /\ IF req \in {"on", "off"}
       THEN MonitorSetAlarm(kind, req = "on", o)
       ELSE UNCHANGED <<plc, plc_mem, alarm, mobs>>
    /\ mon' = [mon EXCEPT !.dpc = IF req = "raise" THEN "loop" ELSE next]
    /\ UNCHANGED <<detector_vars, alog, worker_vars, life, inference_vars, stream_vars>>

\* _handle_person_alarm
HandlePerson(o) ==
    /\ mon.dpc = "person"
    /\ HandleRequest("person",
                     CameraMonitor_handle_person_alarm(mon, mon.person_result, person, alarm),
                     o, "coal")

\* _handle_coal_alarm, which ends the frame
HandleCoal(o) ==
    /\ mon.dpc = "coal"
    /\ HandleRequest("coal",
                     CameraMonitor_handle_coal_alarm(mon, mon.coal_result, coal, alarm),
                     o, "loop")

\* One iteration of the turn_off_all() that stop() calls.
StopTurnOff(kind, needed, o) ==
    /\ o \in NeedsLink(IF needed THEN "off" ELSE "none")
    /\ IF needed
       THEN MonitorSetAlarm(kind, OFF, o)
       ELSE UNCHANGED <<plc, plc_mem, alarm, mobs>>
    /\ UNCHANGED <<detector_vars, alog, worker_vars, life, inference_vars, stream_vars>>

\* stop(): the state check, STOPPING, and the first iteration of turn_off_all
StopBegin(o) ==
    /\ mon.cpc = "idle"
    /\ mon.started
    /\ mon._state # "stopped"
    /\ StopTurnOff("person", mon._alarm_manager /\ alarm._alarm_states["person"] = ON, o)
    /\ mon' = [mon EXCEPT !._state = "stopping", !.cpc = "off_coal"]

\* stop(): the second iteration of turn_off_all
StopTurnOffCoal(o) ==
    /\ mon.cpc = "off_coal"
    /\ StopTurnOff("coal", mon._alarm_manager /\ alarm._alarm_states["coal"] = ON, o)
    /\ mon' = [mon EXCEPT !.cpc = "set_event"]

\* stop(): _stop_event.set()
StopSetEvent ==
    /\ mon.cpc = "set_event"
    /\ mon' = [mon EXCEPT !._stop_event = TRUE, !.cpc = "join"]
    /\ UNCHANGED <<detector_vars, plc_vars, worker_vars, mobs, life, inference_vars, stream_vars>>

\* stop(): join(timeout=2.0) returns when the thread has ended or the time is up
StopJoin(timed_out) ==
    /\ mon.cpc = "join"
    /\ mon.dpc \in {"none", "exit"} \/ timed_out
    /\ mon' = [mon EXCEPT !.cpc = "cleanup"]
    /\ UNCHANGED <<detector_vars, plc_vars, worker_vars, mobs, life, inference_vars, stream_vars>>

\* stop(): _cleanup, which releases the link, then STOPPED
StopCleanup ==
    /\ mon.cpc = "cleanup"
    /\ plc' = IF mon._plc_client THEN PLCClient_disconnect(plc) ELSE plc
    /\ mon' = [CameraMonitor_cleanup(mon) EXCEPT !._state = "stopped", !.cpc = "done"]
    /\ UNCHANGED <<detector_vars, plc_mem, alarm, alog, worker_vars, mobs, life, inference_vars, stream_vars>>

NextMonitor ==
    \/ \E plc_ok \in BOOLEAN, video_ok \in BOOLEAN : Start(plc_ok, video_ok)
    \/ DetectExit
    \/ \E y \in MonitorFrames, raises \in BOOLEAN : DetectFrame(y, raises)
    \/ \E o \in Outcomes : HandlePerson(o)
    \/ \E o \in Outcomes : HandleCoal(o)
    \/ \E o \in Outcomes : StopBegin(o)
    \/ \E o \in Outcomes : StopTurnOffCoal(o)
    \/ StopSetEvent
    \/ \E timed_out \in BOOLEAN : StopJoin(timed_out)
    \/ StopCleanup

SpecMonitor == InitMonitor /\ [][NextMonitor]_vars

(***************************************************************************)
(* SpecLifecycle: one caller makes start() and stop() calls on a monitor   *)
(* without a PLC, one after the other, in any order; between the start of  *)
(* the threads and _cleanup the video source delivers frames and the       *)
(* detection thread runs its cycles.                                       *)
(***************************************************************************)
DetectionMaxsize == 2

InitLifecycle ==
    /\ IdleDetector
    /\ IdlePlc
    /\ IdleWorker
    /\ IdleInference
    /\ IdleStream
    /\ \E t \in 1 .. MaxThreshold : mon = CameraMonitor_init(MonitorConfig(FALSE, t, t))
    /\ mobs = InitMobs
    /\ life = InitLife

lifecycle_others ==
    <<detector_vars, plc_vars, worker_vars, mobs, inference_vars, stream_vars>>

\* What the observer notes of a step that takes the monitor from before to after.
ObserveLife(o, before, after) ==
    IF after._state = before._state THEN o
    ELSE [o EXCEPT !.entered[after._state] = @ + 1]

\* A step of a start() or stop() call that leaves the monitor as m.
LifeStep(m, o) ==
    /\ mon' = m
    /\ life' = ObserveLife(o, mon, m)
    /\ UNCHANGED lifecycle_others

\* start() is called
LifeStartBegin ==
    /\ mon.cpc = "idle"
    /\ life.calls < MaxLifeCalls
    /\ LifeStep([CameraMonitor_start_enter(mon) EXCEPT
                     !.cpc = IF mon._state = "running" THEN "idle" ELSE "start"],
                IF mon._state = "running"
                THEN [life EXCEPT !.calls = @ + 1]
                ELSE [life EXCEPT !.calls = @ + 1, !.frames = 0, !.detections = 0])

\* start(): the components, the video source and the two threads
LifeStartThreads(init_ok, video_ok) ==
    /\ mon.cpc = "start"
    /\ LifeStep([CameraMonitor_start_threads(mon, init_ok /\ video_ok) EXCEPT
                     !.cpc = IF init_ok /\ video_ok THEN "set_running" ELSE "idle"],
                [life EXCEPT !.queued = 0])

\* start(): _set_state(RUNNING), return True
LifeStartRunning ==
    /\ mon.cpc = "set_running"
    /\ LifeStep([CameraMonitor_set_state(mon, "running") EXCEPT !.cpc = "idle"], life)

\* _on_video_frame: a frame from the video source is counted and put in the buffer
LifeFrame ==
    /\ mon.dpc = "loop"
    /\ life.frames < MaxLifeFrames
    /\ life' = [life EXCEPT !.frames = @ + 1,
                            !.queued = IF @ < DetectionMaxsize THEN @ + 1 ELSE @]
    /\ UNCHANGED <<mon, lifecycle_others>>

\* One iteration of _detection_loop that finds a frame: get_for_detection empties
\* the buffer and _process_frame runs.
LifeDetect ==
    /\ mon.dpc = "loop"
    /\ ~mon._stop_event
    /\ life.queued > 0
    /\ life' = [life EXCEPT !.detections = @ + 1, !.queued = 0]
    /\ UNCHANGED <<mon, lifecycle_others>>

\* stop() is called
LifeStopBegin ==
    /\ mon.cpc = "idle"
    /\ life.calls < MaxLifeCalls
    /\ LifeStep([CameraMonitor_stop_enter(mon) EXCEPT
                     !.cpc = IF mon._state = "stopped" THEN "idle" ELSE "stop"],
                [life EXCEPT !.calls = @ + 1])

\* stop(): the stop event, the joins, _cleanup, _set_state(STOPPED)
LifeStopFinish ==
    /\ mon.cpc = "stop"
    /\ LifeStep([CameraMonitor_stop_finish(mon) EXCEPT !.cpc = "idle"],
                [life EXCEPT !.queued = 0])

NextLifecycle ==
    \/ LifeStartBegin
    \/ \E init_ok \in BOOLEAN, video_ok \in BOOLEAN : LifeStartThreads(init_ok, video_ok)
    \/ LifeStartRunning
    \/ LifeFrame
    \/ LifeDetect
    \/ LifeStopBegin
    \/ LifeStopFinish

SpecLifecycle == InitLifecycle /\ [][NextLifecycle]_vars

(***************************************************************************)
(* SpecInference: models are loaded, start_all builds the workers, and the *)
(* threads of both paths run inference whenever they can.                  *)
(***************************************************************************)
InitInference ==
    /\ IdleDetector
    /\ IdlePlc
    /\ IdleWorker
    /\ IdleMonitor
    /\ IdleInference
    /\ IdleStream

other_vars == <<detector_vars, plc_vars, worker_vars, monitor_vars, stream_vars>>

\* load() of a configured model succeeds.
Load(model_id, cameras) ==
    /\ ~InModels(loader, model_id)
    /\ model_id \notin lobs.failed
    /\ loader' = MultiModelLoader_load(loader, model_id, cameras)
    /\ lobs' = [lobs EXCEPT !.listed = Listed(@, model_id, cameras)]
    /\ UNCHANGED <<workers, locks, inf, other_vars>>

\* load() of a configured model raises: the file is not found, or YOLO() raises
\* after the lock was made.
LoadFails(model_id, cameras, lock_made) ==
    /\ ~InModels(loader, model_id)
    /\ model_id \notin lobs.failed
    /\ loader' = MultiModelLoader_load_raises(loader, model_id, lock_made)
    /\ lobs' = [listed |-> Listed(lobs.listed, model_id, cameras),
                failed |-> lobs.failed \cup {model_id}]
    /\ UNCHANGED <<workers, locks, inf, other_vars>>

StartAll ==
    /\ Len(loader._models) > 0
    /\ workers = [c \in Cameras |-> NoWorker]
    /\ workers' = ProductionApp_start_all(loader)
    /\ UNCHANGED <<loader, locks, inf, lobs, other_vars>>

\* predict() up to the with statement: the model and its lock are resolved.
PredictBegin(c) ==
    /\ inf[<<"monitor", c>>].pc = "idle"
    /\ LET model_id == MultiModelLoader_predict_model(loader, c) IN
       /\ model_id # NoModel
       /\ inf' = [inf EXCEPT ![<<"monitor", c>>] =
                      [pc |-> "wait", model |-> model_id,
                       lock |-> loader._inference_locks[model_id]]]
    /\ UNCHANGED <<loader, workers, locks, lobs, other_vars>>

\* The worker's detection loop reaches its with statement.
WorkerBegin(c) ==
    /\ inf[<<"worker", c>>].pc = "idle"
    /\ workers[c] # NoWorker
    /\ inf' = [inf EXCEPT ![<<"worker", c>>] =
                   [pc |-> "wait", model |-> workers[c].model, lock |-> workers[c].lock]]
    /\ UNCHANGED <<loader, workers, locks, lobs, other_vars>>

\* The lock is acquired and model.predict starts.
Acquire(t) ==
    /\ inf[t].pc = "wait"
    /\ locks[inf[t].lock] = Free
    /\ locks' = [locks EXCEPT ![inf[t].lock] = t]
    /\ inf' = [inf EXCEPT ![t].pc = "run"]
    /\ UNCHANGED <<loader, workers, lobs, other_vars>>

\* model.predict returns and the lock is released.
Release(t) ==
    /\ inf[t].pc = "run"
    /\ locks' = [locks EXCEPT ![inf[t].lock] = Free]
    /\ inf' = [inf EXCEPT ![t] = IdleThread]
    /\ UNCHANGED <<loader, workers, lobs, other_vars>>

NextInference ==
    \/ \E m \in Models, cams \in SUBSET Cameras : Load(m, cams)
    \/ \E m \in Models, cams \in SUBSET Cameras, lock_made \in BOOLEAN : LoadFails(m, cams, lock_made)
    \/ StartAll
    \/ \E c \in Cameras : PredictBegin(c)
    \/ \E c \in Cameras : WorkerBegin(c)
    \/ \E t \in Threads : Acquire(t)
    \/ \E t \in Threads : Release(t)

SpecInference == InitInference /\ [][NextInference]_vars

(***************************************************************************)
(* SpecBuffer: two producers call put() and one consumer calls get(),      *)
(* get_latest() and clear() on a FrameBuffer of capacity 1 .. MaxSize.     *)
(***************************************************************************)
InitBuffer ==
    /\ IdleDetector
    /\ IdlePlc
    /\ IdleWorker
    /\ IdleMonitor
    /\ IdleInference
    /\ IdleSource
    /\ IdleCapture
    /\ IdleThrottle
    /\ IdleMore
    /\ \E maxsize \in 1 .. MaxSize : fb = FrameBuffer_init(maxsize)
    /\ bth = [t \in BufferThreads |-> IdleBufferThread]
    /\ bobs = InitBobs

buffer_others ==
    <<detector_vars, plc_vars, worker_vars, monitor_vars, inference_vars, source_vars, capture_vars, throttle_vars, more_vars>>

\* put(frame): a frame that is None is refused before the lock.
PutCall(t, frame) ==
    /\ bth[t].pc = "idle"
    /\ bobs.calls < MaxPuts
    /\ bobs' = [bobs EXCEPT !.calls = @ + 1]
    /\ bth' = IF frame = None THEN bth ELSE [bth EXCEPT ![t].pc = "lock"]
    /\ UNCHANGED <<fb, buffer_others>>

\* with self._lock
PutAcquire(t) ==
    /\ bth[t].pc = "lock"
    /\ FrameBuffer_lock_free(fb)
    /\ fb' = [fb EXCEPT !._lock = Some(t)]
    /\ bth' = [bth EXCEPT ![t].pc = "load", ![t].d0 = fb._dropped_count]
    /\ UNCHANGED <<bobs, buffer_others>>

\* self._frame_counter += 1, the load
PutLoad(t) ==
    /\ bth[t].pc = "load"
    /\ bth' = [bth EXCEPT ![t].pc = "store", ![t].n = fb._frame_counter]
    /\ UNCHANGED <<fb, bobs, buffer_others>>

\* self._frame_counter += 1, the store; FrameData(frame_id=self._frame_counter)
PutStore(t) ==
    /\ bth[t].pc = "store"
    /\ fb' = [fb EXCEPT !._frame_counter = bth[t].n + 1]
    /\ bth' = [bth EXCEPT ![t].pc = "full", ![t].frame_data = bth[t].n + 1]
    /\ UNCHANGED <<bobs, buffer_others>>

\* if self._queue.full()
PutFull(t) ==
    /\ bth[t].pc = "full"
    /\ bth' = [bth EXCEPT ![t].pc = IF FrameBuffer_queue_full(fb) THEN "drop" ELSE "enqueue",
                          ![t].full = FALSE, ![t].exact = FALSE]
    /\ UNCHANGED <<fb, bobs, buffer_others>>

\* get_nowait() and the drop counter
PutDrop(t) ==
    /\ bth[t].pc = "drop"
    /\ fb' = FrameBuffer_put_drop(fb)
    /\ bth' = [bth EXCEPT ![t].pc = "enqueue",
                          ![t].full = FrameBuffer_queue_full(fb),
                          ![t].exact = Len(fb._queue) > 0 /\ fb'._queue = Tail(fb._queue)]
    /\ UNCHANGED <<bobs, buffer_others>>

\* put_nowait(frame_data), and the way out of the with block
PutEnqueue(t) ==
    /\ bth[t].pc = "enqueue"
    /\ fb' = FrameBuffer_put_enqueue(fb, bth[t].frame_data)
    /\ bobs' = [bobs EXCEPT !.ids = Append(@, bth[t].frame_data),
                            !.put = [done |-> TRUE, full |-> bth[t].full, exact |-> bth[t].exact,
                                     frame_id |-> bth[t].frame_data, after |-> fb'._queue,
                                     counted |-> fb'._dropped_count - bth[t].d0,
                                     ok |-> ~FrameBuffer_queue_full(fb)]]
    /\ bth' = [bth EXCEPT ![t] = IdleBufferThread]
    /\ UNCHANGED buffer_others

\* A call hands frame_id to the consumer; 0 stands for None.
ReturnToConsumer(b, frame_id) ==
    IF frame_id = 0 THEN b
    ELSE [b EXCEPT !.prev_ret = b.last_ret, !.last_ret = frame_id, !.returned = @ + 1]

\* get(): get_nowait(), or get(timeout) that ends with a frame or with queue.Empty.
BufferGet(c) ==
    /\ bth[c].pc = "idle"
    /\ IF Len(fb._queue) > 0
       THEN /\ fb' = [fb EXCEPT !._queue = Tail(@)]
            /\ bobs' = [ReturnToConsumer(bobs, Head(fb._queue)) EXCEPT !.taken = @ + 1]
       ELSE UNCHANGED <<fb, bobs>>
    /\ UNCHANGED <<bth, buffer_others>>

\* get_latest(): latest = None
GetLatestCall(c) ==
    /\ bth[c].pc = "idle"
    /\ bth' = [bth EXCEPT ![c].pc = "gl_empty", ![c].latest = 0]
    /\ UNCHANGED <<fb, bobs, buffer_others>>

\* while not self._queue.empty(); return latest
GetLatestEmpty(c) ==
    /\ bth[c].pc = "gl_empty"
    /\ IF Len(fb._queue) = 0
       THEN /\ bobs' = ReturnToConsumer(bobs, bth[c].latest)
            /\ bth' = [bth EXCEPT ![c] = IdleBufferThread]
       ELSE /\ bth' = [bth EXCEPT ![c].pc = "gl_get"]
            /\ UNCHANGED bobs
    /\ UNCHANGED <<fb, buffer_others>>

\* latest = get_nowait(); queue.Empty breaks the loop
GetLatestGet(c) ==
    /\ bth[c].pc = "gl_get"
    /\ IF Len(fb._queue) > 0
       THEN /\ fb' = [fb EXCEPT !._queue = Tail(@)]
            /\ bth' = [bth EXCEPT ![c].pc = "gl_empty", ![c].latest = Head(fb._queue)]
            /\ bobs' = [bobs EXCEPT !.taken = @ + 1]
       ELSE /\ bobs' = ReturnToConsumer(bobs, bth[c].latest)
            /\ bth' = [bth EXCEPT ![c] = IdleBufferThread]
            /\ UNCHANGED fb
    /\ UNCHANGED buffer_others

\* clear(): count = 0
ClearCall(c) ==
    /\ bth[c].pc = "idle"
    /\ bth' = [bth EXCEPT ![c].pc = "cl_empty"]
    /\ UNCHANGED <<fb, bobs, buffer_others>>

\* while not self._queue.empty()
ClearEmpty(c) ==
    /\ bth[c].pc = "cl_empty"
    /\ bth' = [bth EXCEPT ![c].pc = IF Len(fb._queue) = 0 THEN "cl_lock" ELSE "cl_get"]
    /\ UNCHANGED <<fb, bobs, buffer_others>>

\* get_nowait(); queue.Empty breaks the loop
ClearGet(c) ==
    /\ bth[c].pc = "cl_get"
    /\ IF Len(fb._queue) > 0
       THEN /\ fb' = [fb EXCEPT !._queue = Tail(@)]
            /\ bobs' = [bobs EXCEPT !.cleared = @ + 1]
            /\ bth' = [bth EXCEPT ![c].pc = "cl_empty"]
       ELSE /\ bth' = [bth EXCEPT ![c].pc = "cl_lock"]
            /\ UNCHANGED <<fb, bobs>>
    /\ UNCHANGED buffer_others

\* with self._lock: self._latest_frame = None
ClearLatest(c) ==
    /\ bth[c].pc = "cl_lock"
    /\ fb._lock = Free
    /\ fb' = [fb EXCEPT !._latest_frame = None]
    /\ bth' = [bth EXCEPT ![c] = IdleBufferThread]
    /\ UNCHANGED <<bobs, buffer_others>>

NextBuffer ==
    \/ \E t \in Producers, frame \in {None, Some("frame")} : PutCall(t, frame)
    \/ \E t \in Producers : PutAcquire(t)
    \/ \E t \in Producers : PutLoad(t)
    \/ \E t \in Producers : PutStore(t)
    \/ \E t \in Producers : PutFull(t)
    \/ \E t \in Producers : PutDrop(t)
    \/ \E t \in Producers : PutEnqueue(t)
    \/ \E c \in Consumers : BufferGet(c)
    \/ \E c \in Consumers : GetLatestCall(c)
    \/ \E c \in Consumers : GetLatestEmpty(c)
    \/ \E c \in Consumers : GetLatestGet(c)
    \/ \E c \in Consumers : ClearCall(c)
    \/ \E c \in Consumers : ClearEmpty(c)
    \/ \E c \in Consumers : ClearGet(c)
    \/ \E c \in Consumers : ClearLatest(c)

SpecBuffer == InitBuffer /\ [][NextBuffer]_vars

(***************************************************************************)
(* SpecSource: an OptimizedVideoSource on a network camera that goes away  *)
(* and comes back, its capture thread, and a caller of stop().             *)
(***************************************************************************)
InitSource ==
    /\ IdleDetector
    /\ IdlePlc
    /\ IdleWorker
    /\ IdleMonitor
    /\ IdleInference
    /\ IdleBuffer
    /\ IdleCapture
    /\ IdleThrottle
    /\ IdleMore
    /\ \E source_type \in {"rtsp", "file"} : src = OptimizedVideoSource_init(source_type)
    /\ sobs = InitSobs

source_others ==
    <<detector_vars, plc_vars, worker_vars, monitor_vars, inference_vars, buffer_vars, capture_vars, throttle_vars, more_vars>>

\* The camera goes away or comes back.
SrcCameraChanges ==
    /\ sobs.changes < MaxOutages
    /\ sobs' = [sobs EXCEPT !.available = ~@, !.changes = @ + 1]
    /\ UNCHANGED <<src, source_others>>

\* start(), on a source that is not running: the first call, or one after a start()
\* that failed.
SrcStart(raises) ==
    /\ src.tpc = "off"
    /\ src.spc = "idle"
    /\ src._status \in {"disconnected", "error"}
    /\ raises => ~sobs.available
    /\ src' = OptimizedVideoSource_start(src, sobs.available, raises)
    /\ sobs' = [sobs EXCEPT !.start =
                    [ called |-> TRUE,
                      opened |-> sobs.available,
                      ret |-> OptimizedVideoSource_start_returns(src, sobs.available),
                      reports |-> OptimizedVideoSource_open_source_reports(sobs.available) ]]
    /\ UNCHANGED source_others

\* The capture thread goes on unless it is at an acquire and the lock is held.
SrcCaptureAt(steps) ==
    /\ src.tpc \in steps
    /\ src.tpc \in CaptureAcquires => src._cap_lock = Free

\* One step of _capture_loop()
SrcCaptureLoop ==
    /\ SrcCaptureAt({"loop", "check", "read", "reading"})
    /\ src' = OptimizedVideoSource_capture_loop(src, sobs.available)
    /\ UNCHANGED <<sobs, source_others>>

\* One step of _handle_disconnection()
SrcHandleDisconnection(too_soon) ==
    /\ SrcCaptureAt({"hd", "hd_file", "hd_release"})
    /\ too_soon => (src.tpc = "hd" /\ src._last_reconnect_time # 0)
    /\ src' = OptimizedVideoSource_handle_disconnection(src, too_soon)
    /\ UNCHANGED <<sobs, source_others>>

\* One step of _open_source(), called by _handle_disconnection()
SrcOpenSource ==
    /\ SrcCaptureAt({"hd_open", "open", "open_status"})
    /\ src' = OptimizedVideoSource_open_source(src, sobs.available)
    /\ UNCHANGED <<sobs, source_others>>

\* One step of stop(): join returns when the thread has ended or after its timeout,
\* and _release_source() goes on when the lock is free.
SrcStop(timed_out) ==
    /\ src.spc \in {"idle", "join", "release", "status"}
    /\ src.spc = "join" =>
           \/ src.tpc \in {"off", "exit"}
           \/ timed_out /\ (CaptureWaits(src) \/ CaptureInCall(src))
    /\ src.spc = "release" => src._cap_lock = Free
    /\ src' = OptimizedVideoSource_stop(src)
    /\ UNCHANGED <<sobs, source_others>>

NextSource ==
    \/ SrcCameraChanges
    \/ \E raises \in BOOLEAN : SrcStart(raises)
    \/ SrcCaptureLoop
    \/ \E too_soon \in BOOLEAN : SrcHandleDisconnection(too_soon)
    \/ SrcOpenSource
    \/ \E timed_out \in BOOLEAN : SrcStop(timed_out)

SpecSource == InitSource /\ [][NextSource]_vars

(***************************************************************************)
(* SpecCapture: an OptimizedCameraWorker with its capture thread, its       *)
(* detection thread and a caller of stop(), on a camera that accepts or    *)
(* refuses each connection and answers or fails each read.                 *)
(***************************************************************************)
InitCapture ==
    /\ IdleDetector
    /\ IdlePlc
    /\ IdleWorker
    /\ IdleMonitor
    /\ IdleInference
    /\ IdleBuffer
    /\ IdleSource
    /\ IdleThrottle
    /\ IdleMore
    /\ \E rtsp_url \in {"", "rtsp://camera"} : wcap = OptimizedCameraWorker_capture_init(rtsp_url)
    /\ wcobs = InitWcobs

capture_others ==
    <<detector_vars, plc_vars, worker_vars, monitor_vars, inference_vars, buffer_vars, source_vars, throttle_vars, more_vars>>

\* What the observer notes of one step of the capture thread.
ObserveCapture(o, before, after) ==
    [o EXCEPT
        !.connects = IF before.tpc = "connecting" /\ after.tpc = "connected" THEN @ + 1 ELSE @,
        !.fails = IF before.tpc = "connected" THEN 0
                  ELSE IF before.tpc = "connecting" /\ after.tpc # "connected" /\ @ < MaxFailsSeen
                  THEN @ + 1 ELSE @,
        !.was_reconnecting = IF after._rtsp_fail_count = 0 THEN FALSE
                             ELSE IF after._status = "reconnecting" THEN TRUE ELSE @,
        !.opened_after_stop = @ \/ (before.tpc = "connect" /\ before._stop_event)]

\* start()
WkStart ==
    /\ wcap.tpc = "off"
    /\ wcap.spc = "idle"
    /\ wcap' = OptimizedCameraWorker_start(wcap)
    /\ UNCHANGED <<wcobs, capture_others>>

\* The capture thread goes on unless it is at an acquire and the lock is held.
WkCaptureAt(steps) ==
    /\ wcap.tpc \in steps
    /\ wcap.tpc \in WorkerAcquires => wcap._cap_lock = Free

\* One step of _capture_loop().  A read gives a frame only from an opened handle,
\* and may fail even then; at most MaxWorkerFrames frames are read.
WkCaptureLoop(outcome) ==
    /\ WkCaptureAt({"loop", "need", "read", "reading", "q_full", "q_get", "q_put"})
    /\ wcap.tpc # "reading" => outcome = "none"
    /\ outcome = "frame" =>
           /\ IsOpened(wcap._cap)
           /\ wcap._frame_count < MaxWorkerFrames
    /\ wcap' = OptimizedCameraWorker_capture_loop(wcap, outcome, wcobs.connects)
    /\ wcobs' = ObserveCapture(wcobs, wcap, wcap')
    /\ UNCHANGED capture_others

\* One step of _reconnect()
WkReconnect(too_soon) ==
    /\ WkCaptureAt({"rc", "rc_release"})
    /\ too_soon => (wcap.tpc = "rc" /\ wcap._last_reconnect_time # 0)
    /\ wcap' = OptimizedCameraWorker_reconnect(wcap, too_soon)
    /\ wcobs' = ObserveCapture(wcobs, wcap, wcap')
    /\ UNCHANGED capture_others

\* One step of _connect(), called by the loop or by _reconnect().  The camera
\* accepts the connection or not; at most MaxConnects connections are made.
WkConnect(available) ==
    /\ WkCaptureAt({"connect", "connecting", "connected"})
    /\ wcap.tpc # "connecting" => ~available
    /\ available => wcobs.connects < MaxConnects
    /\ wcap' = OptimizedCameraWorker_connect(wcap, available)
    /\ wcobs' = ObserveCapture(wcobs, wcap, wcap')
    /\ UNCHANGED capture_others

\* One step of _detection_loop(); the observer notes the frame that goes to inference.
WkDetectionLoop ==
    /\ wcap.dpc \in {"d_loop", "d_empty", "d_get", "d_detect"}
    /\ wcap' = OptimizedCameraWorker_detection_loop(wcap)
    /\ wcobs' = IF wcap.dpc # "d_detect" /\ wcap'.dpc = "d_detect"
                THEN [wcobs EXCEPT !.prev_det = wcobs.last_det, !.last_det = Get(wcap.dframe).pos]
                ELSE wcobs
    /\ UNCHANGED capture_others

\* One step of stop(): a join returns when its thread has ended, or after its timeout
\* while the thread is inside a call; the handle is released when the lock is free.
\* A worker without an address has started no thread that stop() could end.
WkStop(timed_out) ==
    /\ wcap.rtsp_url # ""
    /\ wcap.spc \in {"idle", "join_capture", "join_detection", "release"}
    /\ wcap.spc = "join_capture" =>
           \/ wcap.tpc \in {"off", "exit"}
           \/ timed_out /\ wcap.tpc \in {"connecting", "reading"}
    /\ wcap.spc = "join_detection" =>
           \/ wcap.dpc \in {"off", "exit"}
           \/ timed_out /\ wcap.dpc = "d_detect"
    /\ wcap.spc = "release" => wcap._cap_lock = Free
    /\ wcap' = OptimizedCameraWorker_stop(wcap)
    /\ UNCHANGED <<wcobs, capture_others>>

NextCapture ==
    \/ WkStart
    \/ \E outcome \in {"frame", "none", "raise"} : WkCaptureLoop(outcome)
    \/ \E too_soon \in BOOLEAN : WkReconnect(too_soon)
    \/ \E available \in BOOLEAN : WkConnect(available)
    \/ WkDetectionLoop
    \/ \E timed_out \in BOOLEAN : WkStop(timed_out)

SpecCapture == InitCapture /\ [][NextCapture]_vars

(***************************************************************************)
(* SpecHandoff: the two handoff queues between capture and detection, each *)
(* run on its own: a FrameBuffer with its callers as in SpecBuffer, or the *)
(* _detection_queue of an OptimizedCameraWorker as in SpecCapture.         *)
(***************************************************************************)
InitHandoff == InitBuffer \/ InitCapture

NextHandoff ==
    \/ fb._maxsize > 0 /\ NextBuffer
    \/ wcap.rtsp_url # "" /\ NextCapture

SpecHandoff == InitHandoff /\ [][NextHandoff]_vars

(***************************************************************************)
(* Detector claims, checked under SpecDetector.                            *)
(***************************************************************************)

\* C4: for both detectors, arm edges (should_alarm) and disarm transitions
\* (alarm_state TRUE -> FALSE) strictly alternate, starting with an arm edge: at
\* every moment the arm edges outnumber the disarms by one exactly when the
\* detector is armed, and by zero otherwise.
C4_ArmDisarmAlternate ==
    /\ obs.p.arm_edges - obs.p.disarms = (IF person._alarm_state THEN 1 ELSE 0)
    /\ obs.c.arm_edges - obs.c.disarms = (IF coal._alarm_state THEN 1 ELSE 0)

\* A detector that armed, disarmed and armed again.
C4_Witness == obs.c.arm_edges = 2 /\ obs.c.disarms = 1

\* C5: a detector emits should_alarm only on a frame that completes a run of at
\* least consecutive_threshold condition-meeting frames in a row.
C5_ArmOnlyAfterConsecutiveRun ==
    /\ obs.p.should_alarm => obs.p.on_run >= person.consecutive_threshold
    /\ obs.c.should_alarm => obs.c.on_run >= coal.consecutive_threshold

\* C6: after every detect() the on-streak counter is at most consecutive_threshold,
\* and it is 0 right after a frame that emitted an arm edge.
C6_OnStreakBounded ==
    /\ person._consecutive_count <= person.consecutive_threshold
    /\ coal._consecutive_count <= coal.consecutive_threshold
    /\ obs.p.should_alarm => person._consecutive_count = 0
    /\ obs.c.should_alarm => coal._consecutive_count = 0

\* An arm edge was just emitted by a detector that had been armed before.
C6_Witness == obs.p.should_alarm /\ obs.p.arm_edges = 2 /\ person._consecutive_count = 0

\* C7: every frame on which the predictor returned no detections advances the
\* off-streak by one, and after off-threshold such frames in a row the detector
\* is not armed.
C7_EmptyFramesAdvanceOffStreak ==
    /\ obs.p.none_run > 0 =>
           person._no_detection_count = obs.p.off_before + obs.p.none_run
    /\ obs.p.none_run >= person.no_detection_threshold => ~person._alarm_state
    /\ obs.c.none_run > 0 =>
           coal._no_blockage_count = obs.c.off_before + obs.c.none_run
    /\ obs.c.none_run >= coal.no_blockage_threshold => ~coal._alarm_state

\* An armed person detector was disarmed by exactly off-threshold empty frames.
C7_Witness ==
    /\ obs.p.arm_edges = 1 /\ obs.p.disarms = 1
    /\ obs.p.off_before = 0
    /\ obs.p.none_run = person.no_detection_threshold
    /\ ~person._alarm_state

C3_FailedWriteKeepsState ==
    (alog.last.sent /\ alog.last.wires = 0) =>
        /\ ~alog.last.ret
        /\ ~alog.last.callback
        /\ alarm._alarm_states[alog.last.kind] = alog.last.prev

C3_Witness ==
    /\ alog.last.sent /\ alog.last.wires = 0
    /\ alog.last.calls = 2
    /\ alog.last.prev = ON /\ alog.last.requested = OFF
    /\ alog.last.bit_before

\* C8: in OptimizedCameraWorker, when the coal alarm is active, every cycle of a run
\* of cycles without masks (or without a result) advances the off-streak counter, and
\* once such a run is coal_no_blockage_threshold cycles long the coal alarm is
\* inactive and an is_active = False alert has been emitted for it.
C8_WorkerDisarmsWithoutMasks ==
    (wobs.active_before /\ wobs.nomask_run > 0) =>
        /\ worker._coal_no_blockage_count = wobs.off_before + wobs.nomask_run
        /\ wobs.nomask_run >= worker.config.coal_no_blockage_threshold =>
               (~worker.coal_alarm_active /\ wobs.off_alerts = wobs.on_alerts)

(***************************************************************************)
(* Monitor claims, checked under SpecMonitor.                              *)
(***************************************************************************)
PersonBit == BitOf(plc_mem, alarm._alarm_configs["person"])
CoalBit == BitOf(plc_mem, alarm._alarm_configs["coal"])

\* The PLC is enabled, it connected at start, and every send so far succeeded at once.
LinkHealthy == mon.config.plc_enabled /\ mobs.ok /\ mobs.faults = 0

\* Write attempts match the detector transitions, for both alarm kinds.
WritesMatchEdges ==
    \A kind \in AlarmType :
        /\ mobs.sent[kind]["on"] = mobs.arm_edges[kind]
        /\ mobs.sent[kind]["off"] = mobs.disarms[kind]

\* C1: once stop() has returned, with the PLC reachable and every write having
\* succeeded, the person and coal alarm bits in the PLC are both 0, whatever the
\* detection thread was doing while stop() ran.
C1_StopLeavesAlarmBitsClear ==
    (mon.cpc = "done" /\ LinkHealthy) => (~PersonBit /\ ~CoalBit)

C35_FailedArmWriteIsNotRepeated ==
    /\ ~mobs.retried
    /\ mobs.failed_on["person"] => ~PersonBit
    /\ mobs.failed_on["coal"] => ~CoalBit

\* The ON call of a person arm edge failed, and a later frame has been handled with
\* the detector still armed: the bit is 0 and the manager records OFF.
C35_Witness ==
    /\ mobs.failed_on["person"] /\ mobs.after_fail
    /\ mon.dpc = "loop" /\ mon.cpc = "idle"
    /\ person._alarm_state /\ alarm._alarm_states["person"] = OFF /\ ~PersonBit

\* C28: a frame for which predict() raises is dropped: the step that takes it
\* leaves both detectors (their counters and armed state), the alarm manager and
\* the PLC's data block as they were, makes no write attempt, and leaves the
\* detection thread at the top of its loop, ready for the next frame.
C28_RaisingFrameIsDropped ==
    [][mobs'.raised > mobs.raised =>
           /\ person' = person /\ coal' = coal
           /\ alarm' = alarm /\ plc_mem' = plc_mem /\ mobs'.sent = mobs.sent
           /\ mon'.dpc = "loop"]_vars

\* predict() raised for a frame, and a later frame with a person in the zone armed
\* the person detector.
C28_Witness ==
    /\ mobs.raised >= 1 /\ mobs.recovered
    /\ mobs.arm_edges["person"] >= 1 /\ person._alarm_state

(***************************************************************************)
(* SpecThrottle: two threads call log_person_alert / log_coal_alert and    *)
(* save_person_alert / save_coal_alert of one camera's AlertLogger and     *)
(* ImageSaver, forced or not, while the clock advances.                    *)
(***************************************************************************)
InitThrottle ==
    /\ IdleDetector
    /\ IdlePlc
    /\ IdleWorker
    /\ IdleMonitor
    /\ IdleInference
    /\ IdleBuffer
    /\ IdleSource
    /\ IdleCapture
    /\ IdleMore
    /\ thr = InitThr
    /\ tobs = InitTobs

throttle_others ==
    <<detector_vars, plc_vars, worker_vars, monitor_vars, inference_vars, buffer_vars, source_vars, capture_vars, more_vars>>

LockOf(t, comp) == IF comp = "logger" THEN t.logger._lock ELSE t.saver._lock

SetLock(t, comp, holder) ==
    IF comp = "logger" THEN [t EXCEPT !.logger._lock = holder]
    ELSE [t EXCEPT !.saver._lock = holder]

\* The clock advances.
ThrTick ==
    /\ thr.now < throttle_interval + MaxTicks
    /\ thr' = [thr EXCEPT !.now = @ + 1]
    /\ UNCHANGED <<tobs, throttle_others>>

\* A log_*_alert or save_*_alert call begins: a forced call goes to the write, any
\* other to _should_log / _should_save, which reads the clock first.
ThrCall(t, comp, alert_type, force) ==
    /\ thr.th[t].pc = "idle"
    /\ tobs.calls < MaxThrottleCalls
    /\ alert_type \in AlertTypesOf(comp)
    /\ thr' = [thr EXCEPT !.th[t] = [pc |-> IF force THEN "write" ELSE "sampled",
                                     comp |-> comp, alert_type |-> alert_type,
                                     force |-> force,
                                     current_time |-> IF force THEN 0 ELSE thr.now]]
    /\ tobs' = [tobs EXCEPT !.calls = @ + 1]
    /\ UNCHANGED throttle_others

\* _should_log / _should_save: with self._lock
ThrEnter(t) ==
    /\ thr.th[t].pc = "sampled"
    /\ LockOf(thr, thr.th[t].comp) = Free
    /\ thr' = [SetLock(thr, thr.th[t].comp, Some(t)) EXCEPT !.th[t].pc = "locked"]
    /\ UNCHANGED <<tobs, throttle_others>>

\* What the observer notes of a decision r made by a thread in position c.
ObserveDecision(o, c, last_time, r) ==
    [o EXCEPT !.accepted[c.alert_type] = IF r.ret THEN Append(@, c.current_time) ELSE @,
              !.rejected = @ \/ ~r.ret,
              !.stale = @ \/ c.current_time < last_time]

\* A decision r carried out: the instance replaced, the lock released, the thread on
\* to the write or back from the call.
ThrDecided(t, c, r) ==
    /\ thr' = [SetLock(IF c.comp = "logger" THEN [thr EXCEPT !.logger = r.self]
                                              ELSE [thr EXCEPT !.saver = r.self],
                       c.comp, Free)
                   EXCEPT !.th[t] = IF r.ret THEN [c EXCEPT !.pc = "write", !.current_time = 0]
                                    ELSE IdleThrottleThread]
    /\ tobs' = ObserveDecision(tobs, c, LastTime(thr, c.comp, c.alert_type), r)
    /\ UNCHANGED throttle_others

\* _should_log / _should_save: the comparison and the update under the lock
ThrDecide(t) ==
    /\ thr.th[t].pc = "locked"
    /\ ThrDecided(t, thr.th[t],
                  IF thr.th[t].comp = "logger"
                  THEN AlertLogger_should_log(thr.logger, thr.th[t].alert_type,
                                              thr.th[t].current_time)
                  ELSE ImageSaver_should_save(thr.saver, thr.th[t].alert_type,
                                              thr.th[t].current_time))

\* log(): the line appended under the lock; save_*_alert: the image drawn and
\* written by save_frame under the lock.  Either may fail, and the call returns.
ThrWrite(t, ok) ==
    /\ thr.th[t].pc = "write"
    /\ LockOf(thr, thr.th[t].comp) = Free
    /\ thr' = [thr EXCEPT !.th[t] = IdleThrottleThread]
    /\ tobs' = [tobs EXCEPT !.forced = @ \/ (ok /\ thr.th[t].force)]
    /\ UNCHANGED throttle_others

NextThrottle ==
    \/ ThrTick
    \/ \E t \in ThrottleThreads, comp \in Components, a \in ThrottleKeys, force \in BOOLEAN :
           ThrCall(t, comp, a, force)
    \/ \E t \in ThrottleThreads : ThrEnter(t)
    \/ \E t \in ThrottleThreads : ThrDecide(t)
    \/ \E t \in ThrottleThreads, ok \in BOOLEAN : ThrWrite(t, ok)

SpecThrottle == InitThrottle /\ [][NextThrottle]_vars

(***************************************************************************)
(* Throttle claim, checked under SpecThrottle.                             *)
(***************************************************************************)
Apart(x, y) == x - y >= throttle_interval \/ y - x >= throttle_interval

\* C21: for each alert type of the AlertLogger and of the ImageSaver, the times of
\* any two non-forced calls that were let through are at least throttle_interval
\* apart, whatever the interleaving of the calling threads; calls made within one
\* interval of an accepted one are turned down.
C21_AcceptedAtLeastIntervalApart ==
    \A a \in ThrottleKeys :
        \A i, j \in 1 .. Len(tobs.accepted[a]) :
            i # j => Apart(tobs.accepted[a][i], tobs.accepted[a][j])

\* Two log entries of one type were let through, one interval apart; a call was
\* turned down, and one thread decided with a time older than the one the other
\* thread had had accepted.
C21_Witness ==
    /\ Len(tobs.accepted["person_detection"]) = 2
    /\ tobs.accepted["person_detection"][2] - tobs.accepted["person_detection"][1]
           = throttle_interval
    /\ tobs.rejected /\ tobs.stale

(***************************************************************************)
(* Lifecycle claims, checked under SpecLifecycle.                          *)
(***************************************************************************)
\* C25: whatever start() and stop() calls are made one after the other, every change
\* of the monitor's state to RUNNING is made from STARTING, every change to STOPPED
\* from STOPPING, and every change to ERROR from STARTING.
C25_StateEnteredFromItsPredecessor ==
    [][mon'._state # mon._state =>
           /\ mon'._state = "running" => mon._state = "starting"
           /\ mon'._state = "stopped" => mon._state = "stopping"
           /\ mon'._state = "error" => mon._state = "starting"]_vars

\* A start() that failed, a stop() after it, a start() that succeeded, a stop(), and
\* a second successful start().
C25_Witness ==
    /\ mon._state = "running"
    /\ life.entered["error"] = 1
    /\ life.entered["stopped"] = 2
    /\ life.entered["running"] = 2

\* C26: while the monitor's state is RUNNING, a frame has been captured and a
\* detection cycle has run since the start() that made it so.
C26_RunningOnlyAfterBothTasksHealthy ==
    mon._state = "running" => (life.frames > 0 /\ life.detections > 0)

(***************************************************************************)
(* Inference claim, checked under SpecInference.                           *)
(***************************************************************************)
Running(m) == {t \in Threads : inf[t].pc = "run" /\ inf[t].model = m}

\* C10: at any time at most one thread is executing inference on a given model,
\* counting the predict() callers and the worker detection loops of all cameras
\* that use the model, the cameras that fall back to it included.
C10_OneInferencePerModel ==
    \A m \in Models : Cardinality(Running(m)) <= 1

\* A predict() call for a camera with no mapping runs on the first model while the
\* worker of another camera, mapped to that model, waits for the same lock.
C10_Witness ==
    \E c \in Cameras : \E d \in Cameras \ {c} :
        /\ loader._camera_model_map[c] = NoModel
        /\ inf[<<"monitor", c>>].pc = "run"
        /\ loader._camera_model_map[d] = inf[<<"monitor", c>>].model
        /\ inf[<<"worker", d>>].pc = "wait"
        /\ inf[<<"worker", d>>].model = inf[<<"monitor", c>>].model

(***************************************************************************)
(* FrameBuffer claims, checked under SpecBuffer.                           *)
(***************************************************************************)
\* C14: the frame ids that put() assigns are strictly increasing in the order in which
\* the puts take effect, whatever get(), get_latest() and clear() calls run beside
\* them; so no id is assigned twice.
C14_FrameIdsStrictlyIncrease ==
    \A i \in 1 .. Len(bobs.ids) - 1 : bobs.ids[i] < bobs.ids[i + 1]

\* Two puts have taken effect and frames were cleared and returned, while one
\* producer is inside put() and the other waits for the lock.
C14_Witness ==
    /\ Len(bobs.ids) >= 2
    /\ bobs.cleared > 0
    /\ bobs.returned > 0
    /\ bth["p1"].pc = "store"
    /\ bth["p2"].pc = "lock"

BufferQuiet == \A t \in BufferThreads : bth[t].pc = "idle"

\* C15 as stated: between calls of put(), get() and get_latest(), dropped_frames is
\* total_frames minus the frames returned to the consumer minus size().
C15_DropsBalanceReturnedFrames ==
    (BufferQuiet /\ bobs.cleared = 0) =>
        fb._dropped_count = fb._frame_counter - bobs.returned - Len(fb._queue)

\* C15: between calls of put(), get() and get_latest(), dropped_frames is total_frames
\* minus the frames the consumer's calls took out of the queue minus size(); the
\* frames get_latest() takes out and does not return count as taken, not as dropped.
C15_DropsBalanceTakenFrames ==
    (BufferQuiet /\ bobs.cleared = 0) =>
        fb._dropped_count = fb._frame_counter - bobs.taken - Len(fb._queue)

\* Between calls: put() has dropped a frame, get_latest() has taken out more frames
\* than the consumer got, and a frame is queued.
C15_Witness ==
    /\ BufferQuiet
    /\ bobs.cleared = 0
    /\ fb._dropped_count > 0
    /\ bobs.taken > bobs.returned
    /\ bobs.returned > 0
    /\ Len(fb._queue) > 0

C11_CaptureNeverBlocksForGood ==
    (src._is_running /\ ~src._stop_event) => ~CaptureWaits(src)

\* C12: stop() is never left waiting for a lock whose holder waits for it too, and
\* once stop() has returned on a running source the handle is released and the
\* status is DISCONNECTED.
C12_StopReturnsReleasedAndDisconnected ==
    /\ src.spc \in {"join", "release"} => ~CaptureWaits(src)
    /\ src.spc = "done" => (src._cap = None /\ src._status = "disconnected")

\* C24: after a start() whose source did not open, the error callback was invoked
\* once by that call, start() returned False, the status is ERROR and there is no
\* capture thread.
C24_FailedStartReportsOnce ==
    (sobs.start.called /\ ~sobs.start.opened) =>
        /\ sobs.start.reports = 1
        /\ ~sobs.start.ret
        /\ src._status = "error"
        /\ src.tpc = "off"
        /\ ~src._is_running

\* A start() has failed on a camera that does not answer, VideoCapture having
\* returned an unopened handle.
C24_Witness ==
    /\ sobs.start.called
    /\ ~sobs.start.opened
    /\ src._cap = VideoCapture(FALSE)
    /\ src._status = "error"

(***************************************************************************)
(* OptimizedCameraWorker capture claims, checked under SpecCapture.        *)
(***************************************************************************)
\* C13: what get_display_frame() returns is None or a frame read from the connection
\* made by the last successful _connect(): never a frame read before it.
C13_DisplayFrameNotStale ==
    \/ OptimizedCameraWorker_get_display_frame(wcap) = None
    \/ Get(OptimizedCameraWorker_get_display_frame(wcap)).epoch = wcobs.connects

\* C18: a read is attempted after three or more failed reads in a row only if the
\* status has been RECONNECTING since the run of failures began; and the status is
\* not RECONNECTING while fewer than three reads in a row have failed.
C18_ReconnectingOnThirdFailure ==
    /\ (wcap.tpc = "reading" /\ wcap._rtsp_fail_count >= FailLimit) => wcobs.was_reconnecting
    /\ wcap._status = "reconnecting" => wcap._rtsp_fail_count >= FailLimit

\* The interval after n failed attempts in a row: 0.5 s times 1.5 to the n, at most 10 s.
RECURSIVE BackoffAfter(_)
BackoffAfter(n) == IF n = 0 THEN MIN_RECONNECT_INTERVAL ELSE Backoff(BackoffAfter(n - 1))

\* C19: the wait the worker applies before its next connection attempt is 0.5 s after
\* a successful connection and is multiplied by 1.5, up to 10 s, by every failed
\* attempt since: 0.5, 0.75, 1.125, ...
C19_BackoffGrowsWithEveryFailure ==
    wcobs.fails < MaxFailsSeen => wcap._reconnect_interval = BackoffAfter(wcobs.fails)

\* C20: the capture thread starts no VideoCapture call once stop() has set the event.
C20_NoConnectAfterStop ==
    ~wcobs.opened_after_stop

\* C27: once stop() has returned, the status is STOPPED and the display frame is
\* empty, whatever the capture and detection threads still do.
C27_StoppedStateAfterStop ==
    wcap.spc = "done" => (wcap._status = "stopped" /\ wcap._display_frame = None)

(***************************************************************************)
(* Handoff claim, checked under SpecHandoff.                               *)
(***************************************************************************)
\* C16: the frames a consumer gets from a handoff queue come in capture order: each
\* frame get() or get_latest() returns has a larger frame id than the one returned
\* before, and each frame the worker's detection loop takes to inference was
\* captured after the one it took before.
C16_FramesReachDetectionInOrder ==
    /\ bobs.last_ret # 0 => bobs.prev_ret < bobs.last_ret
    /\ wcobs.last_det # 0 => wcobs.prev_det < wcobs.last_det

\* The detection loop has taken the first frame and then the third: the second was
\* dropped or drained on the way.
C16_Witness ==
    /\ wcobs.prev_det = 1
    /\ wcobs.last_det = 3
    /\ wcap.dpc = "d_detect"

\* C22: one set_alarm call makes at most two write_bit calls, the second only after
\* the reconnect() that follows a failed first one, and at most one reconnect() in
\* all, the one health_check() may make included.
C22_OneReconnectOneRetry ==
    /\ alog.last.calls <= 2
    /\ alog.last.calls = 2 => alog.last.reconnects = 1
    /\ alog.last.hc_reconnects + alog.last.reconnects <= 1

\* C23: a camera that the configuration binds only to models whose load failed has
\* no worker, and no inference runs or waits to run for it on any model.
C23_FailedModelStopsItsCameras ==
    \A c \in Cameras :
        (lobs.listed[c] # {} /\ lobs.listed[c] \subseteq lobs.failed) =>
            /\ workers[c] = NoWorker
            /\ inf[<<"monitor", c>>].model = NoModel
            /\ inf[<<"worker", c>>].model = NoModel

(***************************************************************************)
(* CoalDetector switch claims, checked under SpecSwitch.                   *)
(***************************************************************************)
RatioEq(a, b) == a[1] * b[2] = b[1] * a[2]

\* C29: a detect() call made while the detector is disabled never arms and advances
\* the off-streak by one, so that after no_blockage_threshold such calls in a row
\* the detector is disarmed.
C29_DisabledDetectorDecays ==
    /\ ~cobs.armed_off
    /\ ~cobs.stalled
    /\ (~coal.enabled /\ cobs.off_run >= coal.no_blockage_threshold) => ~coal._alarm_state

\* A detect() call made while the detector was disabled and armed has disarmed it.
C29_Witness ==
    /\ cobs.decayed
    /\ ~coal.enabled
    /\ cobs.off_run > 0

\* C30: the coal_ratio of a result is the ratio of the frame it was computed for:
\* 100 * coal pixels in the ROI / ROI pixels, between 0 and 100, and 0 for a frame
\* without masks (and for a frame the detector, being disabled, does not look at).
C30_RatioIsOfThisFrame ==
    cobs.called =>
        /\ RatioEq(cobs.ratio, cobs.truth)
        /\ cobs.ratio[1] >= 0
        /\ cobs.ratio[1] <= 100 * cobs.ratio[2]

wire_others ==
    <<detector_vars, plc_vars, worker_vars, monitor_vars, inference_vars, buffer_vars, source_vars, capture_vars,
      throttle_vars, link_vars, cache_vars, task_vars>>

InitWire ==
    /\ IdleDetector
    /\ IdlePlc
    /\ IdleWorker
    /\ IdleMonitor
    /\ IdleInference
    /\ IdleBuffer
    /\ IdleSource
    /\ IdleCapture
    /\ IdleThrottle
    /\ IdleLink
    /\ IdleRoi
    /\ IdleTasks
    /\ \E shared \in BOOLEAN, byte \in SUBSET WireBits :
           /\ wb = InitWb(shared, byte)
           /\ wbobs = InitWbobs(byte)

WireCall(t) ==
    /\ wb.th[t].pc = "idle"
    /\ wbobs.calls < MaxWrites
    /\ \E bit_offset \in BitsOf(wb, t), value \in BOOLEAN :
           wb' = PLCClient_write_bit_enter(wb, t, bit_offset, value)
    /\ wbobs' = [wbobs EXCEPT !.calls = @ + 1]
    /\ UNCHANGED wire_others

WireLock(t) ==
    /\ wb.th[t].pc = "lock"
    /\ PLCClient_lock_free(wb, ClientOf(wb, t))
    /\ wb' = PLCClient_write_bit_lock(wb, t)
    /\ UNCHANGED <<wbobs, wire_others>>

WireBlocked(t) ==
    /\ wb.th[t].pc = "lock"
    /\ wb._lock[ClientOf(wb, t)] # Free
    /\ ~wbobs.waited
    /\ wbobs' = [wbobs EXCEPT !.waited = TRUE]
    /\ UNCHANGED <<wb, wire_others>>

WireRead(t) ==
    /\ wb.th[t].pc = "read"
    /\ wb' = PLCClient_write_bit_read(wb, t)
    /\ UNCHANGED <<wbobs, wire_others>>

WireWrite(t) ==
    /\ wb.th[t].pc = "write"
    /\ \E ok \in BOOLEAN :
           /\ wb' = PLCClient_write_bit_write(wb, t, ok)
           /\ wbobs' = [wbobs EXCEPT !.last[wb.th[t].bit_offset] = IF ok THEN Some(wb.th[t].value) ELSE @]
    /\ UNCHANGED wire_others

NextWire ==
    \E t \in WireThreads :
        \/ WireCall(t)
        \/ WireLock(t)
        \/ WireBlocked(t)
        \/ WireRead(t)
        \/ WireWrite(t)

SpecWire == InitWire /\ [][NextWire]_vars

\* every bit of the byte has the value of the last successful write to it, or
\* the value it started with when no write addressed it
ByteAsWritten ==
    \A b \in WireBits :
        (b \in wb.byte) <=> (IF wbobs.last[b] = None THEN b \in wbobs.start ELSE wbobs.last[b] = Some(TRUE))

WireIdle == \A t \in WireThreads : wb.th[t].pc = "idle"

\* C32: with several threads on one PLCClient, a write_bit() changes the
\* addressed bit and no other: at every moment each bit of the byte has the
\* value of the last successful write to that bit, or its starting value.
C32_WriteBitTouchesOnlyItsBit == wb.shared => ByteAsWritten

C32_Witness ==
    /\ wb.shared /\ wbobs.waited /\ WireIdle
    /\ wbobs.last[0] = Some(TRUE) /\ wbobs.last[1] = Some(FALSE) /\ wbobs.last[2] = None
    /\ wbobs.start = {1, 2}
    /\ wb.byte = {0, 2}

\* C38: two CameraMonitors writing different bits of one byte, each through
\* its own PLCClient: once both are out of write_bit(), each bit has the value
\* of the last successful write to it.
C38_MonitorsKeepEachOthersBit == (~wb.shared /\ WireIdle) => ByteAsWritten

(***************************************************************************)
(* Specification of reconnect() and health_check() under two threads.      *)
(***************************************************************************)
link_others ==
    <<detector_vars, plc_vars, worker_vars, monitor_vars, inference_vars, buffer_vars, source_vars, capture_vars,
      throttle_vars, wire_vars, cache_vars, task_vars>>

InitLink ==
    /\ IdleDetector
    /\ IdlePlc
    /\ IdleWorker
    /\ IdleMonitor
    /\ IdleInference
    /\ IdleBuffer
    /\ IdleSource
    /\ IdleCapture
    /\ IdleThrottle
    /\ IdleWire
    /\ IdleRoi
    /\ IdleTasks
    /\ \E max_reconnect_attempts \in 1 .. MaxAttempts : lk = InitLk(max_reconnect_attempts)
    /\ lkobs = InitLkobs

\* a thread calls reconnect() or health_check()
LinkCall(t) ==
    /\ lk.th[t].pc = "idle"
    /\ lkobs.calls < MaxLinkCalls
    /\ \E pc \in {"reconnect", "health_check"} : lk' = [lk EXCEPT !.th[t].pc = pc]
    /\ lkobs' = [lkobs EXCEPT !.calls = @ + 1]
    /\ UNCHANGED link_others

\* connect() called directly
LinkConnect(t) ==
    /\ lk.th[t].pc = "idle"
    /\ lkobs.calls < MaxLinkCalls
    /\ \E ok \in BOOLEAN :
           /\ lk' = [lk EXCEPT !.plc = PLCClient_connect(lk.plc, ok).self]
           /\ lkobs' = [lkobs EXCEPT !.calls = @ + 1, !.failed = IF ok THEN 0 ELSE @]
    /\ UNCHANGED link_others

LinkReset(t) ==
    /\ lk.th[t].pc = "idle"
    /\ lkobs.calls < MaxLinkCalls
    /\ lk' = [lk EXCEPT !.plc = PLCClient_reset_reconnect_counter(lk.plc)]
    /\ lkobs' = [lkobs EXCEPT !.calls = @ + 1, !.failed = 0]
    /\ UNCHANGED link_others

\* health_check(): not due, or check_connection() under the lock
LinkHealthCheck(t) ==
    /\ lk.th[t].pc = "health_check"
    /\ \E due \in BOOLEAN, alive \in BOOLEAN :
           IF ~due
           THEN lk' = [lk EXCEPT !.th[t] = IdleLinkThread]
           ELSE lk' = [lk EXCEPT !.plc = PLCClient_check_connection(lk.plc, alive).self,
                                 !.th[t].pc = IF PLCClient_check_connection(lk.plc, alive).ret
                                              THEN "idle" ELSE "failed"]
    /\ UNCHANGED <<lkobs, link_others>>

LinkHealthCheckFailed(t) ==
    /\ lk.th[t].pc = "failed"
    /\ lk' = PLCClient_health_check_failed(lk, t)
    /\ UNCHANGED <<lkobs, link_others>>

LinkReconnectEnter(t) ==
    /\ lk.th[t].pc = "reconnect"
    /\ lk' = [lk EXCEPT !.th[t].pc = IF PLCClient_reconnect_exhausted(lk.plc) THEN "idle" ELSE "load"]
    /\ UNCHANGED <<lkobs, link_others>>

LinkReconnectLoad(t) ==
    /\ lk.th[t].pc = "load"
    /\ lk' = PLCClient_reconnect_load(lk, t)
    /\ UNCHANGED <<lkobs, link_others>>

LinkReconnectStore(t) ==
    /\ lk.th[t].pc = "store"
    /\ lk' = PLCClient_reconnect_store(lk, t)
    /\ UNCHANGED <<lkobs, link_others>>

LinkReconnectClose(t) ==
    /\ lk.th[t].pc = "close"
    /\ lk' = PLCClient_reconnect_close(lk, t)
    /\ UNCHANGED <<lkobs, link_others>>

LinkReconnectConnect(t) ==
    /\ lk.th[t].pc = "connect"
    /\ \E ok \in BOOLEAN :
           /\ lk' = PLCClient_reconnect_connect(lk, t, ok)
           /\ lkobs' = [lkobs EXCEPT !.failed = IF ok THEN 0 ELSE @ + 1]
    /\ UNCHANGED link_others

NextLink ==
    \E t \in LinkThreads :
        \/ LinkCall(t)
        \/ LinkConnect(t)
        \/ LinkReset(t)
        \/ LinkHealthCheck(t)
        \/ LinkHealthCheckFailed(t)
        \/ LinkReconnectEnter(t)
        \/ LinkReconnectLoad(t)
        \/ LinkReconnectStore(t)
        \/ LinkReconnectClose(t)
        \/ LinkReconnectConnect(t)

SpecLink == InitLink /\ [][NextLink]_vars

\* C36: the reconnect counter never exceeds max_reconnect_attempts, and no
\* more than that many connection attempts of reconnect() fail in a row
\* without a successful connect() or a reset_reconnect_counter() in between.
C36_ReconnectAttemptsBounded ==
    /\ lk.plc._reconnect_count <= lk.plc.max_reconnect_attempts
    /\ lkobs.failed <= lk.plc.max_reconnect_attempts

\* C37: the AlarmManager starts with both alarms recorded OFF whatever the PLC
\* holds; for a kind whose bit was 1 at that point, until a set_alarm(kind, ON)
\* has succeeded the recorded state stays OFF and no OFF is written for it by
\* set_alarm(kind, OFF) or turn_off_all(), and the bit stays 1 as long as no OFF
\* was written for it.
C37_PresetBitSurvivesOffRequests ==
    /\ alog.calls = 0 => (alarm._alarm_states["person"] = OFF /\ alarm._alarm_states["coal"] = OFF)
    /\ \A kind \in AlarmType :
           /\ (alog.preset[kind] /\ ~alog.armed[kind]) =>
                  (alarm._alarm_states[kind] = OFF /\ alog.writes[kind]["off"] = 0)
           /\ (alog.preset[kind] /\ alog.writes[kind]["off"] = 0) =>
                  BitOf(plc_mem, alarm._alarm_configs[kind])
    /\ (~alog.armed[alog.last.kind] /\ alog.last.requested = OFF) =>
           (~alog.last.sent /\ alog.last.wires = 0 /\ alog.last.ret)

C37_Witness ==
    /\ alog.preset["person"] /\ ~alog.armed["person"] /\ alog.off_asked["person"] /\ alog.swept
    /\ alog.last.kind = "person" /\ alog.last.requested = OFF
    /\ alog.writes["coal"] = [on |-> 1, off |-> 1]
    /\ PersonBit /\ ~CoalBit

(***************************************************************************)
(* Specification of the ROI mask cache: a detection thread calling         *)
(* detect() on frames of either width and a thread calling update_roi().   *)
(***************************************************************************)
cache_others ==
    <<detector_vars, plc_vars, worker_vars, monitor_vars, inference_vars, buffer_vars, source_vars, capture_vars,
      throttle_vars, wire_vars, link_vars, task_vars>>

InitRoiSpec ==
    /\ IdleDetector
    /\ IdlePlc
    /\ IdleWorker
    /\ IdleMonitor
    /\ IdleInference
    /\ IdleBuffer
    /\ IdleSource
    /\ IdleCapture
    /\ IdleThrottle
    /\ IdleWire
    /\ IdleLink
    /\ IdleTasks
    /\ \E roi_points \in Polygons :
           /\ cache = InitRoi(roi_points)
           /\ robs = InitRobs(roi_points)

\* detect() on a frame of width w, up to the test of the cache
RoiDetect(w) ==
    /\ cache.det.pc = "idle"
    /\ robs.frames < MaxRoiFrames
    /\ cache' = [cache EXCEPT !.det = [pc |-> IF BaseDetector_mask_stale(cache, w) THEN "build" ELSE "use",
                                   w |-> w, mask |-> {}]]
    /\ robs' = [robs EXCEPT !.frames = @ + 1, !.fresh = cache.upd.pc = "idle"]
    /\ UNCHANGED cache_others

RoiBuild ==
    /\ cache.det.pc = "build"
    /\ cache' = BaseDetector_build_mask(cache)
    /\ UNCHANGED <<robs, cache_others>>

RoiStore ==
    /\ cache.det.pc = "store"
    /\ cache' = BaseDetector_store_mask(cache)
    /\ UNCHANGED <<robs, cache_others>>

\* detect(): the detections are checked against self._roi_mask
RoiUse ==
    /\ cache.det.pc = "use"
    /\ cache' = [cache EXCEPT !.det = IdleRoiDetect]
    /\ robs' = [robs EXCEPT !.used = cache._roi_mask, !.w = cache.det.w, !.checked = robs.fresh]
    /\ UNCHANGED cache_others

RoiUpdate(roi_points) ==
    /\ cache.upd.pc = "idle"
    /\ robs.updates < MaxRoiUpdates
    /\ cache' = BaseDetector_update_roi_points(cache, roi_points)
    /\ robs' = [robs EXCEPT !.updates = @ + 1, !.fresh = FALSE, !.checked = FALSE]
    /\ UNCHANGED cache_others

RoiClear ==
    /\ cache.upd.pc = "clear"
    /\ cache' = BaseDetector_update_roi_clear(cache)
    /\ UNCHANGED <<robs, cache_others>>

NextRoi ==
    \/ \E w \in FrameWidths : RoiDetect(w)
    \/ RoiBuild
    \/ RoiStore
    \/ RoiUse
    \/ \E roi_points \in Polygons : RoiUpdate(roi_points)
    \/ RoiClear

SpecRoi == InitRoiSpec /\ [][NextRoi]_vars

\* C31: a detect() that starts after update_roi(p) has returned checks its
\* detections against the mask of p at the width of its frame, also when
\* update_roi(p) ran beside an earlier detect().
C31_DetectUsesMaskOfCurrentPolygon ==
    (robs.checked /\ robs.updates > 0 /\ cache.upd.pc = "idle" /\ cache.det.pc = "idle") =>
        robs.used = Some(create_mask_from_polygon(cache.roi_points, robs.w))

\* C33: the mask a detector uses for a frame of width w is the rasterization
\* of the configured polygon with its vertices scaled from the reference
\* resolution to w.
C33_MaskIsScaledPolygon ==
    (robs.updates = 0 /\ robs.used # None) =>
        robs.used = Some(create_mask_from_polygon(ROIConfig_scale_roi(robs.configured, robs.w), robs.w))

(***************************************************************************)
(* Specification of the worker's threads under start() and stop() calls of *)
(* one caller.  A join(timeout=2.0) returns when its thread has ended, or  *)
(* with the thread still inside an iteration that outlasts the timeout.    *)
(***************************************************************************)
task_others ==
    <<detector_vars, plc_vars, worker_vars, monitor_vars, inference_vars, buffer_vars, source_vars, capture_vars,
      throttle_vars, wire_vars, link_vars, cache_vars>>

InitTasks ==
    /\ IdleDetector
    /\ IdlePlc
    /\ IdleWorker
    /\ IdleMonitor
    /\ IdleInference
    /\ IdleBuffer
    /\ IdleSource
    /\ IdleCapture
    /\ IdleThrottle
    /\ IdleWire
    /\ IdleLink
    /\ IdleRoi
    /\ \E rtsp_url \in {"", "rtsp://camera"} : tk = OptimizedCameraWorker_tasks_init(rtsp_url)
    /\ tkobs = InitTkobs

\* start()
TaskStart ==
    /\ tk.spc = "idle"
    /\ tkobs.starts < MaxStarts
    /\ IF OptimizedCameraWorker_start_refused(tk)
       THEN UNCHANGED <<tk, tkobs>>
       ELSE /\ tk' = OptimizedCameraWorker_start_tasks(tk, tkobs.starts + 1)
            /\ tkobs' = [tkobs EXCEPT !.starts = @ + 1]
    /\ UNCHANGED task_others

\* stop(): the flags
TaskStop ==
    /\ tk.spc = "idle"
    /\ tkobs.stops < MaxStarts
    /\ tk' = OptimizedCameraWorker_stop_flags(tk)
    /\ tkobs' = [tkobs EXCEPT !.stops = @ + 1]
    /\ UNCHANGED task_others

\* stop(): if the thread is alive, join(timeout=2.0)
TaskJoin(k) ==
    /\ tk.spc = (IF k = "capture" THEN "join_capture" ELSE "join_detection")
    /\ OptimizedCameraWorker_thread_alive(tk, k) => tk.th[k][tk._thread[k]].pc = "body"
    /\ tk' = [tk EXCEPT !.spc = IF k = "capture" THEN "join_detection" ELSE "idle"]
    /\ tkobs' = [tkobs EXCEPT !.timed_out = @ \/ OptimizedCameraWorker_thread_alive(tk, k)]
    /\ UNCHANGED task_others

\* a thread at the test of its while loop
TaskTest(k, i) ==
    /\ tk.th[k][i].pc = "test"
    /\ tk' = [tk EXCEPT !.th[k][i] = IF OptimizedCameraWorker_loop_test(tk)
                                     THEN [pc |-> "body", passed |-> tkobs.starts]
                                     ELSE [pc |-> "ended", passed |-> 0]]
    /\ UNCHANGED <<tkobs, task_others>>

\* a thread ends an iteration
TaskIterate(k, i) ==
    /\ tk.th[k][i].pc = "body"
    /\ tk' = [tk EXCEPT !.th[k][i].pc = "test"]
    /\ UNCHANGED <<tkobs, task_others>>

NextTasks ==
    \/ TaskStart
    \/ TaskStop
    \/ \E k \in TaskKinds : TaskJoin(k)
    \/ \E k \in TaskKinds, i \in TaskIds : TaskTest(k, i)
    \/ \E k \in TaskKinds, i \in TaskIds : TaskIterate(k, i)

SpecTasks == InitTasks /\ [][NextTasks]_vars

\* the threads of a kind that are inside an iteration they entered by passing
\* the loop test after the latest start()
Looping(k) == {i \in TaskIds : tk.th[k][i].pc = "body" /\ tk.th[k][i].passed = tkobs.starts}

\* C39: at any time at most one capture thread and at most one detection
\* thread of the worker is alive and looping, whatever start() and stop()
\* calls were made and whether or not a join in stop() timed out.
C39_OneTaskOfEachKind == \A k \in TaskKinds : Cardinality(Looping(k)) <= 1

====
